---- MODULE Spec2Model ----
(***************************************************************************)
(* The API-access layer of the photo roasting app: the vision-completion   *)
(* client (src/src/services/openaiClient.js) on top of the CORS strategy   *)
(* dispatcher (src/src/utils/corsProxy.js).                                *)
(*                                                                         *)
(* Time is in milliseconds.  A call's processing time is the sum of the    *)
(* durations of the awaits it went through (strategy executions and        *)
(* backoff delays): elapsed[c] is performance.now() - startTime.           *)
(***************************************************************************)
EXTENDS Integers, Sequences, FiniteSets, TLC

\* ------------------------------------------------------------------ bounds

\* number of generateRoast calls made on the one client instance
MaxCalls == 2

\* the calls, in the order the caller makes them
Calls == 1..MaxCalls

\* how long one fetch may take (ms): an answer within the millisecond (a stubbed
\* or cached fetch) and a slow one; one slow answer plus both backoff delays
\* lands exactly on the 10 s boundary, a second one crosses it
Latencies == {0, 7000}

\* how many slow answers the network gives in one run
MaxSlow == 2

\* total_tokens values an API reply may report
TokenCounts == {50}

\* longest completion text handed to processSuccessResponse on its own
MaxTextLen == 4

\* the characters of those texts: the two tag delimiters, whitespace, a letter
Alphabet == {"<", ">", " ", "a"}

Texts == UNION { [1..n -> Alphabet] : n \in 0..MaxTextLen }

\* number of convertToBase64 calls made on the one ImageProcessor, which may
\* all be under way at once
MaxConversions == 2

Conversions == 1..MaxConversions

\* how long a FileReader may take until its load or error event (ms): less
\* than the default timeout, and more
ReadTimes == {7000, 12000}

\* number of files the user selects in the upload step
MaxSelections == 2

\* number of generateRoast calls the app makes
MaxRoasts == 2

\* ------------------------------------------------------- strings as data

\* a string is the sequence of its characters
AllFailedMessage ==
  << "A","l","l"," ","p","r","o","x","y"," ","s","t","r","a","t","e","g",
     "i","e","s"," ","f","a","i","l","e","d" >>

\* String.prototype.includes
Includes(s, sub) ==
  \E i \in 1..(Len(s) - Len(sub) + 1) : SubSeq(s, i, i + Len(sub) - 1) = sub

IsWhitespace(ch) == ch = " "

\* String.prototype.trim
RECURSIVE TrimStart(_)
TrimStart(s) ==
  IF s = << >> THEN << >>
  ELSE IF IsWhitespace(Head(s)) THEN TrimStart(Tail(s)) ELSE s

RECURSIVE TrimEnd(_)
TrimEnd(s) ==
  IF s = << >> THEN << >>
  ELSE IF IsWhitespace(s[Len(s)]) THEN TrimEnd(SubSeq(s, 1, Len(s) - 1)) ELSE s

Trim(s) == TrimEnd(TrimStart(s))

\* position of the first ">" of s, 0 when there is none
RECURSIVE FirstGt(_, _)
FirstGt(s, i) ==
  IF i > Len(s) THEN 0 ELSE IF s[i] = ">" THEN i ELSE FirstGt(s, i + 1)

\* a replace without the g flag: only the first match is removed
RECURSIVE StripFirstTag(_)
StripFirstTag(s) ==
  IF s = << >> THEN << >>
  ELSE IF Head(s) = "<" /\ FirstGt(s, 1) > 0
       THEN SubSeq(s, FirstGt(s, 1) + 1, Len(s))
       ELSE << Head(s) >> \o StripFirstTag(Tail(s))

\* roastText.replace(/<[^>]*>/g, ''): every leftmost match, a "<" up to the
\* next ">", is removed; a "<" with no ">" after it stays
RECURSIVE StripTags(_)
StripTags(s) ==
  IF s = << >> THEN << >>
  ELSE IF Head(s) = "<" /\ FirstGt(s, 1) > 0
       THEN StripTags(SubSeq(s, FirstGt(s, 1) + 1, Len(s)))
       ELSE << Head(s) >> \o StripTags(Tail(s))

\* ------------------------------------------------------------- corsProxy

PROXY_STRATEGIES ==
  [DIRECT |-> "direct", CORS_PROXY |-> "cors_proxy",
   CUSTOM_PROXY |-> "custom", MOCK |-> "mock"]

\* isCustomProxyAvailable is async: what a caller gets synchronously is the
\* promise, which settles later to response.ok, or to false when fetch throws
isCustomProxyAvailable(health) ==
  [type |-> "promise", settlesTo |-> (health = "ok")]

\* JavaScript truthiness of the values the model passes around: a boolean is
\* its own value, an object (a promise included) is always truthy
Truthy(v) == IF v.type = "boolean" THEN v.value ELSE TRUE

\* the localhost branch and the production branch both give cors_proxy, so the
\* hostname is not an input
detectBestStrategy(isJest, health) ==
  IF isJest THEN PROXY_STRATEGIES.MOCK
  ELSE IF Truthy(isCustomProxyAvailable(health)) THEN PROXY_STRATEGIES.CUSTOM_PROXY
  ELSE PROXY_STRATEGIES.CORS_PROXY

getDefaultFallbacks(isJest) ==
  IF isJest THEN << >> ELSE << PROXY_STRATEGIES.DIRECT >>

\* new CorsProxy() with the empty config, as the module's singleton is made:
\* config.strategy and config.fallbackStrategies are undefined, so both
\* defaults are computed
NewCorsProxy(isJest, health) ==
  [strategy |-> detectBestStrategy(isJest, health),
   fallbackStrategies |-> getDefaultFallbacks(isJest)]

\* the config argument of the constructor: config.strategy is a strategy
\* name, or falsy (absent, or the empty string, which stands for both);
\* config.fallbackStrategies is an array or absent
NotConfigured == [given |-> FALSE, value |-> << >>]

Configured(v) == [given |-> TRUE, value |-> v]

\* new CorsProxy(config): config.strategy || this.detectBestStrategy() and
\* config.fallbackStrategies || this.getDefaultFallbacks(); an array, the
\* empty one too, is truthy
CorsProxyOf(config, isJest, health) ==
  [strategy |-> IF config.strategy # "" THEN config.strategy
                ELSE detectBestStrategy(isJest, health),
   fallbackStrategies |->
     IF config.fallbackStrategies.given THEN config.fallbackStrategies.value
     ELSE getDefaultFallbacks(isJest)]

\* ------------------------------------------------- what the network answers

\* the completion texts an API reply may carry
Contents ==
  { << >>, << " " >>, << "h", "i" >>, << "<", "b", ">", "h", "i" >> }

\* data.usage: absent, or an object reporting total_tokens (a reply whose
\* usage is null is not among the replies drawn)
Usages ==
  { [kind |-> "undefined", total_tokens |-> 0] }
  \cup { [kind |-> "object", total_tokens |-> n] : n \in TokenCounts }

NoContent == [defined |-> FALSE, text |-> << >>]

\* the body of a reply: parses is whether response.json() resolves; choices is
\* "undefined" (no such field), "empty" ([]) or "one" ([{message: {content}}])
Bodies ==
  { [parses |-> FALSE, choices |-> "undefined", content |-> NoContent,
     usage |-> [kind |-> "undefined", total_tokens |-> 0], code |-> "none"] }
  \cup { [parses |-> TRUE, choices |-> ch, content |-> NoContent,
          usage |-> [kind |-> "undefined", total_tokens |-> 0],
          code |-> "none"] : ch \in {"undefined", "empty", "one"} }
  \cup { [parses |-> TRUE, choices |-> "one",
          content |-> [defined |-> TRUE, text |-> t],
          usage |-> u, code |-> "none"] : t \in Contents, u \in Usages }

\* the body of an error reply: {error: {code}}
ErrorBodies ==
  { [parses |-> TRUE, choices |-> "undefined", content |-> NoContent,
     usage |-> [kind |-> "undefined", total_tokens |-> 0], code |-> k] :
    k \in {"content_policy_violation", "invalid_api_key"} }

Statuses == {200, 400, 401, 429, 500, 503}

\* Response.ok
IsOk(status) == status \in 200..299

\* a fetch either rejects (threw) or resolves with a response
FetchThrew ==
  [threw |-> TRUE, status |-> 0, ok |-> FALSE,
   data |-> CHOOSE b \in Bodies : ~b.parses]

Replies ==
  { FetchThrew }
  \cup { [threw |-> FALSE, status |-> 200, ok |-> IsOk(200), data |-> b] :
         b \in Bodies }
  \cup { r \in [threw : {FALSE}, status : Statuses \ {200}, ok : BOOLEAN,
               data : ErrorBodies] :
           /\ r.ok = IsOk(r.status)
           /\ r.status = 400 \/ r.data.code # "content_policy_violation" }

\* mockRequest: the canned completion, status 200, 117 tokens
MockReply ==
  [threw |-> FALSE, status |-> 200, ok |-> TRUE,
   data |-> [parses |-> TRUE, choices |-> "one",
             content |-> [defined |-> TRUE, text |-> << "m", "o", "c", "k" >>],
             usage |-> [kind |-> "object", total_tokens |-> 117],
             code |-> "none"]]

\* mockRequest awaits a 100 ms timer before it answers
MockDelay == 100

\* what executing a strategy can yield, and how long it takes
StrategyReplies(s) ==
  IF s = PROXY_STRATEGIES.MOCK THEN { MockReply }
  ELSE IF s \in {PROXY_STRATEGIES.DIRECT, PROXY_STRATEGIES.CORS_PROXY,
                 PROXY_STRATEGIES.CUSTOM_PROXY} THEN Replies
  ELSE { FetchThrew }

\* executeStrategy throws at once for a name that is no strategy
StrategyLatencies(s) ==
  IF s = PROXY_STRATEGIES.MOCK THEN { MockDelay }
  ELSE IF s \in {PROXY_STRATEGIES.DIRECT, PROXY_STRATEGIES.CORS_PROXY,
                 PROXY_STRATEGIES.CUSTOM_PROXY} THEN Latencies
  ELSE { 0 }

\* a dispatcher that hands back whatever response a strategy gave
AcceptsAnyResponse(response) == TRUE

\* makeRequest's test on a strategy's response: return it, or go on
Accepts(response) == response.ok

\* --------------------------------------------------------- openaiClient

maxRetries == 2

\* the test of shouldRetry turned around
shouldRetryInverted(message) ==
  Includes(message, << "4", "0", "1" >>) \/ Includes(message, << "4", "0", "0" >>)

\* shouldRetry: not for an error whose message mentions 401 or 400
shouldRetry(message) ==
  ~Includes(message, << "4", "0", "1" >>) /\ ~Includes(message, << "4", "0", "0" >>)

\* a backoff that grows by 1 s per retry made, starting from none
BackoffDelayLinear(n) == n * 1000

\* the delay before retry number retryCount + 1
BackoffDelay(n) == (2 ^ n) * 1000

\* an argument of generateRoast: null, undefined, a string, of which the
\* model keeps the length and whether it starts with 'data:image/', or a
\* truthy value that is no string and has no startsWith method ({} or 42)
NullImage == [type |-> "null", startsWithDataImage |-> FALSE, length |-> 0]
UndefinedImage == [type |-> "undefined", startsWithDataImage |-> FALSE, length |-> 0]
StringImage(prefixed, len) ==
  [type |-> "string", startsWithDataImage |-> prefixed, length |-> len]

ObjectImage == [type |-> "object", startsWithDataImage |-> FALSE, length |-> 0]

Images ==
  { NullImage, UndefinedImage, ObjectImage,
    StringImage(FALSE, 0), StringImage(FALSE, 18),
    StringImage(TRUE, 37), StringImage(TRUE, 23 + 10 * 1024 * 1024),
    StringImage(TRUE, 13946060), StringImage(TRUE, 13946061) }

\* !base64Image
Falsy(img) ==
  \/ img.type \in {"null", "undefined"}
  \/ img.type = "string" /\ img.length = 0

\* base64Image.startsWith on a value without that method is a TypeError,
\* which validateInput lets escape: threw
validateInput(img) ==
  IF Falsy(img)
  THEN [isValid |-> FALSE,
        error |-> [type |-> "invalid_input", message |-> "No image provided"]]
  ELSE IF img.type # "string"
  THEN [isValid |-> FALSE, threw |-> TRUE]
  ELSE IF ~img.startsWithDataImage
  THEN [isValid |-> FALSE,
        error |-> [type |-> "invalid_input",
                   message |-> "Invalid base64 image format"]]
  ELSE IF img.length * 100 > 10 * 1024 * 1024 * 133
  THEN [isValid |-> FALSE,
        error |-> [type |-> "image_too_large",
                   message |-> "Image too large for processing"]]
  ELSE [isValid |-> TRUE]

\* !data.choices || !data.choices[0]?.message?.content
LacksContent(data) ==
  \/ data.choices # "one"
  \/ ~data.content.defined
  \/ data.content.text = << >>

processSuccessResponse(data, processingTime) ==
  IF LacksContent(data)
  THEN [success |-> FALSE,
        error |-> [type |-> "invalid_response",
                   message |-> "Invalid API response format"]]
  ELSE IF Trim(data.content.text) = << >>
  THEN [success |-> FALSE,
        error |-> [type |-> "empty_response",
                   message |-> "Empty roast content received"]]
  ELSE [success |-> TRUE,
        roastText |-> StripTags(Trim(data.content.text)),
        processingTimeMs |-> processingTime]

\* errorData is what response.json() gave: an object, of which the model
\* keeps error?.code, or null, on which reading .error is a TypeError (threw)
processErrorResponse(response, errorData, processingTime) ==
  CASE response.status = 429 ->
         [success |-> FALSE, processingTimeMs |-> processingTime,
          error |-> [type |-> "rate_limit",
                     message |-> "Rate limit exceeded. Please wait before trying again.",
                     retryAfterSeconds |-> 60]]
    [] response.status = 401 ->
         [success |-> FALSE, processingTimeMs |-> processingTime,
          error |-> [type |-> "api_error", message |-> "Invalid API key provided"]]
    [] response.status = 400 ->
         IF errorData.kind = "null"
         THEN [success |-> FALSE, threw |-> TRUE]
         ELSE IF errorData.code = "content_policy_violation"
         THEN [success |-> FALSE, processingTimeMs |-> processingTime,
               error |-> [type |-> "content_policy",
                          message |-> "Content violates safety guidelines"]]
         ELSE [success |-> FALSE, processingTimeMs |-> processingTime,
               error |-> [type |-> "api_error", message |-> "Bad request to API"]]
    [] response.status = 503 ->
         [success |-> FALSE, processingTimeMs |-> processingTime,
          error |-> [type |-> "service_unavailable",
                     message |-> "OpenAI service temporarily unavailable",
                     retryAfterSeconds |-> 30]]
    [] OTHER ->
         [success |-> FALSE, processingTimeMs |-> processingTime,
          error |-> [type |-> "api_error", message |-> "Unknown API error occurred"]]

\* the constructor's usageStats; estimatedCost is in units of 0.00001 dollar,
\* the price of one token
InitialUsageStats ==
  [totalRequests |-> 0, totalTokens |-> 0, errorCount |-> 0,
   totalResponseTime |-> 0, estimatedCost |-> 0]

\* an update that counts a request only when it succeeded
updateUsageStatsOfSuccesses(stats, responseTime, success, usage) ==
  LET tokens == IF usage.kind = "object" THEN usage.total_tokens ELSE 0
  IN  IF success
      THEN [stats |-> [stats EXCEPT !.totalRequests = @ + 1,
                                    !.totalResponseTime = @ + responseTime,
                                    !.totalTokens = @ + tokens,
                                    !.estimatedCost = @ + tokens],
            threw |-> FALSE]
      ELSE [stats |-> [stats EXCEPT !.errorCount = @ + 1], threw |-> FALSE]

\* an update computed from the counters the client started with, as if the
\* updates of the calls before were lost
updateUsageStatsFromScratch(stats, responseTime, success, usage) ==
  LET tokens == IF usage.kind = "object" THEN usage.total_tokens ELSE 0
  IN  IF success
      THEN [stats |-> [totalRequests |-> 1, totalTokens |-> tokens,
                       errorCount |-> 0, totalResponseTime |-> responseTime,
                       estimatedCost |-> tokens],
            threw |-> FALSE]
      ELSE [stats |-> [totalRequests |-> 1, totalTokens |-> 0,
                       errorCount |-> 1, totalResponseTime |-> responseTime,
                       estimatedCost |-> 0],
            threw |-> FALSE]

\* updateUsageStats(responseTime, success, usage = {}): the default applies to
\* an absent usage only, so reading total_tokens of a null usage throws after
\* the first two counters have been written
updateUsageStats(stats, responseTime, success, usage) ==
  LET counted == [stats EXCEPT !.totalRequests = @ + 1,
                               !.totalResponseTime = @ + responseTime]
      tokens == IF usage.kind = "object" THEN usage.total_tokens ELSE 0
  IN  IF success
      THEN IF usage.kind = "null"
           THEN [stats |-> counted, threw |-> TRUE]
           ELSE [stats |-> [counted EXCEPT !.totalTokens = @ + tokens,
                                           !.estimatedCost = @ + tokens],
                 threw |-> FALSE]
      ELSE [stats |-> [counted EXCEPT !.errorCount = @ + 1], threw |-> FALSE]

NoUsage == [kind |-> "undefined", total_tokens |-> 0]

\* getUsageStats; a quotient is kept as numerator and denominator
getUsageStats(stats) ==
  [totalRequests |-> stats.totalRequests,
   totalTokens |-> stats.totalTokens,
   errorRate |-> IF stats.totalRequests > 0
                 THEN [num |-> stats.errorCount, den |-> stats.totalRequests]
                 ELSE [num |-> 0, den |-> 1],
   averageResponseTime |-> IF stats.totalRequests > 0
                           THEN [num |-> stats.totalResponseTime,
                                 den |-> stats.totalRequests]
                           ELSE [num |-> 0, den |-> 1],
   estimatedCost |-> stats.estimatedCost]

\* the SLA boundary of generateRoast's catch block
TimeoutMs == 10000

\* a catch block that already calls exactly 10 s a timeout
CaughtResultFromBoundary(processingTime) ==
  IF processingTime >= TimeoutMs
  THEN [success |-> FALSE, processingTimeMs |-> processingTime,
        error |-> [type |-> "timeout",
                   message |-> "Request timed out after 10 seconds"]]
  ELSE [success |-> FALSE, processingTimeMs |-> processingTime,
        error |-> [type |-> "network_error", message |-> "Network request failed"]]

\* generateRoast's catch block: the result, after the failure is counted
CaughtResult(processingTime) ==
  IF processingTime > TimeoutMs
  THEN [success |-> FALSE, processingTimeMs |-> processingTime,
        error |-> [type |-> "timeout",
                   message |-> "Request timed out after 10 seconds"]]
  ELSE [success |-> FALSE, processingTimeMs |-> processingTime,
        error |-> [type |-> "network_error", message |-> "Network request failed"]]

Caught(stats, processingTime) ==
  [result |-> CaughtResult(processingTime),
   stats |-> updateUsageStats(stats, processingTime, FALSE, NoUsage).stats,
   caught |-> TRUE]

\* generateRoast from the point where makeRequestWithRetry has returned a
\* response: the result it returns and the usage statistics it leaves
Responded(stats, response, processingTime) ==
  IF response.ok
  THEN IF ~response.data.parses
       THEN Caught(stats, processingTime)
       ELSE LET upd == updateUsageStats(stats, processingTime, TRUE,
                                        response.data.usage)
            IN  IF upd.threw
                THEN Caught(upd.stats, processingTime)
                ELSE [result |-> processSuccessResponse(response.data,
                                                        processingTime),
                      stats |-> upd.stats, caught |-> FALSE]
  ELSE LET errorData == IF response.data.parses
                        THEN [kind |-> "object", code |-> response.data.code]
                        ELSE [kind |-> "object", code |-> "none"]
       IN  [result |-> processErrorResponse(response, errorData, processingTime),
            stats |-> updateUsageStats(stats, processingTime, FALSE, NoUsage).stats,
            caught |-> FALSE]

\* --------------------------------------------------------- PhotoRoastApp

\* The app is one record: the fields of PhotoRoastApp that its methods read,
\* the state of its RoastDisplay, and the promises it awaits. An image is named
\* by the number of the selection it was converted from, 0 being null.
\*   conversions[k]  the convertToBase64 call of the k-th selected file
\*   roasts[r]       the r-th generateRoast call: the image and persona it was
\*                   given, and whether it has settled
\*   roastDisplay    "none" before the first render; roast is the call whose
\*                   outcome (or loading state) the element shows, 0 if none
NewApp ==
  [ isProcessing     |-> FALSE,
    currentImageData |-> 0,
    currentStep      |-> 1,
    selectedPersona  |-> "kapil-sharma",
    roastDisplay     |-> [state |-> "none", roast |-> 0],
    conversions      |-> << >>,
    roasts           |-> << >> ]

\* the persona cards the user clicks in step 2
PersonaOptions == {"virat-kohli", "rajinikanth"}

\* handleStartRoasting up to its await
handleStartRoasting(a) ==
  IF a.isProcessing \/ a.currentImageData = 0
  THEN a
  ELSE [a EXCEPT
          !.isProcessing = TRUE,
          !.roastDisplay = [state |-> "loading", roast |-> Len(a.roasts) + 1],
          !.roasts = Append(@, [image   |-> a.currentImageData,
                                persona |-> a.selectedPersona,
                                settled |-> FALSE])]

\* renderRoastStep puts a fresh RoastDisplay element into the page (render
\* creates it showing the empty state) and starts roasting unless a call is
\* being processed; the other steps render no state of their own
renderCurrentStep(a) ==
  IF a.currentStep = 3
  THEN LET shown == [a EXCEPT !.roastDisplay = [state |-> "empty", roast |-> 0]]
       IN  IF ~shown.isProcessing THEN handleStartRoasting(shown) ELSE shown
  ELSE IF a.currentStep \in {1, 2}
       THEN a
       ELSE [a EXCEPT !.currentStep = 1]

\* a navigation that does not ask for an image
goToStepUnguarded(a, stepNumber) ==
  renderCurrentStep([a EXCEPT !.currentStep = stepNumber])

goToStep(a, stepNumber) ==
  IF stepNumber \in {2, 3} /\ a.currentImageData = 0
  THEN a
  ELSE renderCurrentStep([a EXCEPT !.currentStep = stepNumber])

resetApp(a) ==
  renderCurrentStep(
    [a EXCEPT !.currentImageData = 0,
              !.isProcessing = FALSE,
              !.currentStep = 1,
              !.selectedPersona = "kapil-sharma",
              !.roastDisplay = [state |-> "empty", roast |-> 0]])

\* ------------------------------------------------------------------ state

VARIABLES
  jest,                \* typeof jest !== 'undefined'
  proxyHealth,         \* what the backend's /health probe would answer
  strategy,            \* corsProxy.strategy
  fallbackStrategies,  \* corsProxy.fallbackStrategies
  usageStats,          \* openaiClient.usageStats
  pc,                  \* per call: "idle", "dispatch", "backoff", "returned",
                       \*           "rejected" (the promise rejected), "done"
  elapsed,             \* per call: performance.now() - startTime
  retryCount,          \* per call: makeRequestWithRetry's retryCount
  strategyIdx,         \* per call: makeRequest's position in its strategy list
  result,              \* per call: the value generateRoast returned
  \* what an observer of the call has seen (read by the properties only)
  attempts,            \* per call: invocations of corsProxy.makeRequest
  executions,          \* per call: strategy executions (requests sent)
  tried,               \* per call: <<strategy, answered ok>> of the running makeRequest
  transport,           \* per call: outcome of the last makeRequest
  onlyReply,           \* per call: the one status all replies had, or "else"
  caught,              \* per call: generateRoast's catch block has run
  statsAtCall,         \* per call: usageStats when the call started
  wellFormed,          \* per call: the argument was a non-empty 'data:image/' string
  ledger,              \* the caller's own count of calls, failures and tokens
  slowAnswers          \* how many slow answers the network has given

\* the completion text handed to processSuccessResponse on its own
VARIABLES
  completion,          \* data.choices[0].message.content of a parsed 2xx body
  processed            \* what processSuccessResponse returned for it

clientVars ==
  << jest, proxyHealth, strategy, fallbackStrategies, usageStats, pc, elapsed,
     retryCount, strategyIdx, result, attempts, executions, tried, transport,
     onlyReply, caught, statsAtCall, wellFormed, ledger, slowAnswers >>

\* the ImageProcessor singleton and its convertToBase64 calls
VARIABLES
  activeReaders,       \* imageProcessor.activeReaders
  performanceMetrics,  \* imageProcessor.performanceMetrics
  promise,             \* per conversion: the promise convertToBase64 returned
  timeoutId,           \* per conversion: "none", "armed", "cleared", "fired"
  reader,              \* per conversion: "none", "reading", "loaded", "failed"
  options,             \* per conversion: the options argument
  readTime,            \* per conversion: when the reader's event is due
  file,                \* per conversion: the file argument
  firstEvent           \* per conversion: the first of timer, load, error

\* the FileValidator singleton's validateFile
VARIABLES
  upload,              \* the file argument of validateFile
  validation,          \* the promise validateFile returned
  headerReader         \* validateFileHeaders' FileReader: "none", "reading", "done"

\* buildRequestBody on its own
VARIABLES
  requestOptions,      \* the options argument of buildRequestBody
  requestBody          \* the request body it returned

textVars == << completion, processed >>

\* processErrorResponse on its own
VARIABLES
  errorResponse,       \* its arguments: the response's status, errorData, time
  errorResult          \* what it returned

\* an observer of the dispatcher across calls (read by the properties only)
VARIABLES
  lastWinner           \* position in the strategy list of the strategy whose
                       \* response the last makeRequest returned, 0 if none

\* the callers of generateRoast
VARIABLES
  callerAwaits,        \* whether each call is awaited before the next is made
  applied              \* the usage updates the calls have made, added up by an
                       \* observer (read by the properties only)

\* the page
VARIABLES
  app                  \* window.photoRoastApp

\* the shell around the app: its upload component and its service worker
VARIABLES
  photoUpload,         \* the PhotoUpload component
  swCaches,            \* the worker's CacheStorage: cache name -> requests
  lastFetch            \* what the worker did with the last fetch event

shellVars == << photoUpload, swCaches, lastFetch >>

callerVars == << callerAwaits, applied >>

requestVars == << requestOptions, requestBody >>

errorVars == << errorResponse, errorResult >>

\* the state of the operations modelled on their own, apart from those of
\* the completion text, the encoder and the validator
moreVars == << requestVars, errorVars, lastWinner, callerVars, app, shellVars >>

validatorVars == << upload, validation, headerReader >>

encoderVars ==
  << activeReaders, performanceMetrics, promise, timeoutId, reader, options,
     readTime, file, firstEvent >>

\* the state the client's operations leave alone
auxVars == << textVars, encoderVars, validatorVars, moreVars >>

vars == << clientVars, auxVars >>

\* what the page's steps leave alone
pageOthers ==
  << clientVars, textVars, encoderVars, validatorVars, requestVars, errorVars,
     lastWinner, callerVars, shellVars >>

proxyVars == << jest, proxyHealth, strategy, fallbackStrategies >>

\* the network gives an answer that takes latency ms
Answered(latency) ==
  IF latency > 0
  THEN slowAnswers < MaxSlow /\ slowAnswers' = slowAnswers + 1
  ELSE UNCHANGED slowAnswers

NoResult == [pending |-> TRUE]

\* the list with the fallbacks first
FallbacksFirst == fallbackStrategies \o << strategy >>

\* [this.strategy, ...this.fallbackStrategies]
Strategies == << strategy >> \o fallbackStrategies

\* the kind of a reply, as far as an observer tells replies apart
ReplyKind(reply) ==
  IF ~reply.threw /\ reply.status \in {401, 429} THEN ToString(reply.status)
  ELSE "else"

\* "401" or "429" while every reply of the call has been that one status
Observe(seen, reply) ==
  IF seen = "none" \/ seen = ReplyKind(reply) THEN ReplyKind(reply) ELSE "else"

\* whether a reply is a response with a status of the success range
AnsweredOk(reply) == ~reply.threw /\ reply.status \in 200..299

\* the tokens a reply reports
Reported(reply) ==
  IF reply.data.usage.kind = "object" THEN reply.data.usage.total_tokens ELSE 0

\* the caller books a returned result: a call, a failure unless it is a
\* Success, and the tokens the API reported for a Success
Booked(r, reply) ==
  [calls |-> ledger.calls + 1,
   failed |-> ledger.failed + (IF r.success THEN 0 ELSE 1),
   tokens |-> ledger.tokens + (IF r.success THEN Reported(reply) ELSE 0)]

\* new OpenAIClient(), on which no call has been made
CallsInit ==
  /\ usageStats = InitialUsageStats
  /\ pc = [c \in Calls |-> "idle"]
  /\ elapsed = [c \in Calls |-> 0]
  /\ retryCount = [c \in Calls |-> 0]
  /\ strategyIdx = [c \in Calls |-> 0]
  /\ result = [c \in Calls |-> NoResult]
  /\ attempts = [c \in Calls |-> 0]
  /\ executions = [c \in Calls |-> 0]
  /\ tried = [c \in Calls |-> << >>]
  /\ transport = [c \in Calls |-> "none"]
  /\ onlyReply = [c \in Calls |-> "none"]
  /\ caught = [c \in Calls |-> FALSE]
  /\ statsAtCall = [c \in Calls |-> InitialUsageStats]
  /\ wellFormed = [c \in Calls |-> FALSE]
  /\ ledger = [calls |-> 0, failed |-> 0, tokens |-> 0]
  /\ slowAnswers = 0

\* the module's singletons: new CorsProxy() with an empty config, and
\* new OpenAIClient()
ClientInit ==
  /\ jest \in BOOLEAN
  /\ proxyHealth \in {"ok", "not_ok", "throws"}
  /\ strategy = NewCorsProxy(jest, proxyHealth).strategy
  /\ fallbackStrategies = NewCorsProxy(jest, proxyHealth).fallbackStrategies
  /\ CallsInit

\* no completion text is being processed
NoText ==
  /\ completion = NoContent
  /\ processed = NoResult

NoOptions == [given |-> FALSE, timeout |-> 0]

\* a file argument: kind is "null", "undefined", "string" (a truthy value
\* that is no object) or "object"; of an object the model keeps whether
\* file.name and file.fileName are truthy, whether file.size is a number and
\* file.type a string, and whether it is a Blob, which a FileReader reads
NoFile ==
  [kind |-> "none", name |-> FALSE, fileName |-> FALSE, size |-> FALSE,
   type |-> FALSE, blob |-> FALSE]

NotCalled == [state |-> "none", value |-> NoResult]

\* new ImageProcessor()
EncoderInit ==
  /\ activeReaders = 0
  /\ performanceMetrics =
       [totalProcessed |-> 0, totalTime |-> 0, successCount |-> 0,
        errorCount |-> 0]
  /\ promise = [k \in Conversions |-> NotCalled]
  /\ timeoutId = [k \in Conversions |-> "none"]
  /\ reader = [k \in Conversions |-> "none"]
  /\ options = [k \in Conversions |-> NoOptions]
  /\ readTime = [k \in Conversions |-> 0]
  /\ file = [k \in Conversions |-> NoFile]
  /\ firstEvent = [k \in Conversions |-> "none"]

\* a file argument of validateFile: kind as for convertToBase64; of an object
\* the model keeps whether name is an own property (it is inherited from
\* File.prototype on a browser's File), whether it has a slice method, its
\* size (a number or not) and its type (a string or not)
NoUpload ==
  [kind |-> "none", ownName |-> FALSE, slice |-> FALSE,
   size |-> [isNumber |-> FALSE, value |-> 0],
   type |-> [isString |-> FALSE, value |-> ""]]

\* new PhotoUpload(): no file in its input, none accepted, no message
NewPhotoUpload ==
  [fileInput |-> NoUpload, currentFile |-> NoUpload, message |-> "none"]

\* no cache has been opened
NoCaches == [name \in {"static", "dynamic"} |-> {}]

\* no fetch event has reached the worker
NoFetch == [handled |-> "none"]

ShellInit ==
  photoUpload = NewPhotoUpload /\ swCaches = NoCaches /\ lastFetch = NoFetch

\* validateFile has not been called
ValidatorInit ==
  /\ upload = NoUpload
  /\ validation = NotCalled
  /\ headerReader = "none"

\* buildRequestBody has not been called on its own
NoRequest ==
  /\ requestOptions = NoResult
  /\ requestBody = NoResult

\* processErrorResponse has not been called on its own
NoErrorResponse ==
  /\ errorResponse = NoResult
  /\ errorResult = NoResult

\* none of the operations modelled on their own has been called
NoUpdates == [requests |-> 0, errors |-> 0, tokens |-> 0, interleaved |-> 0]

\* one caller, who awaits each call
OneCaller == callerAwaits = TRUE /\ applied = NoUpdates

MoreInit ==
  /\ NoRequest /\ NoErrorResponse /\ lastWinner = 0 /\ OneCaller
  /\ app = NewApp /\ ShellInit

Init ==
  /\ ClientInit
  /\ NoText
  /\ EncoderInit
  /\ ValidatorInit
  /\ MoreInit

\* a caller who awaits makes the next call when the one before is done;
\* callers who do not await make their calls in any interleaving (the calls
\* being alike, they are numbered in the order they are made)
MayStart(c) ==
  /\ pc[c] = "idle"
  /\ \A d \in Calls :
       d < c => IF callerAwaits THEN pc[d] = "done" ELSE pc[d] # "idle"

\* generateRoast up to its first await: the input is validated, outside the
\* try block, so an exception of validateInput rejects the promise
\* generateRoast returns; a valid input starts
\* makeRequestWithRetry(requestBody, 0), whose makeRequest is at the head of
\* its strategy list
generateRoast(c, img) ==
  /\ MayStart(c)
  /\ statsAtCall' = [statsAtCall EXCEPT ![c] = usageStats]
  /\ wellFormed' = [wellFormed EXCEPT ![c] =
       img.type = "string" /\ img.length > 0 /\ img.startsWithDataImage]
  /\ elapsed' = [elapsed EXCEPT ![c] = 0]
  /\ IF "threw" \in DOMAIN validateInput(img)
     THEN /\ pc' = [pc EXCEPT ![c] = "rejected"]
          /\ UNCHANGED << result, ledger, retryCount, strategyIdx, attempts >>
     ELSE IF ~validateInput(img).isValid
     THEN /\ result' = [result EXCEPT ![c] =
                          [success |-> FALSE, error |-> validateInput(img).error]]
          /\ pc' = [pc EXCEPT ![c] = "returned"]
          /\ ledger' = Booked(result'[c], FetchThrew)
          /\ UNCHANGED << retryCount, strategyIdx, attempts >>
     ELSE /\ pc' = [pc EXCEPT ![c] = "dispatch"]
          /\ retryCount' = [retryCount EXCEPT ![c] = 0]
          /\ strategyIdx' = [strategyIdx EXCEPT ![c] = 1]
          /\ attempts' = [attempts EXCEPT ![c] = 1]
          /\ UNCHANGED << result, ledger >>
  /\ UNCHANGED << proxyVars, usageStats, executions, tried, transport,
                  onlyReply, caught, slowAnswers >>

\* the strategy makeRequest is at answers with an accepted response:
\* makeRequest and makeRequestWithRetry return it, and generateRoast turns it
\* into its result
StrategyAccepted(c, reply, latency) ==
  LET now == elapsed[c] + latency
      out == Responded(usageStats, reply, now)
  IN  /\ pc[c] = "dispatch"
      /\ ~reply.threw /\ Accepts(reply)
      /\ Answered(latency)
      /\ elapsed' = [elapsed EXCEPT ![c] = now]
      /\ executions' = [executions EXCEPT ![c] = @ + 1]
      /\ tried' = [tried EXCEPT ![c] =
           Append(@, << Strategies[strategyIdx[c]], AnsweredOk(reply) >>)]
      /\ onlyReply' = [onlyReply EXCEPT ![c] = Observe(@, reply)]
      /\ transport' = [transport EXCEPT ![c] = "returned"]
      /\ usageStats' = out.stats
      /\ result' = [result EXCEPT ![c] = out.result]
      /\ caught' = [caught EXCEPT ![c] = out.caught]
      /\ pc' = [pc EXCEPT ![c] = "returned"]
      /\ ledger' = Booked(out.result, reply)
      /\ UNCHANGED << proxyVars, retryCount, strategyIdx, attempts, statsAtCall,
                  wellFormed >>

\* the strategy throws or answers with a response makeRequest does not
\* accept, and another strategy is left: the loop goes on to it
StrategyFailedNext(c, reply, latency) ==
  /\ pc[c] = "dispatch"
  /\ reply.threw \/ ~Accepts(reply)
  /\ strategyIdx[c] < Len(Strategies)
  /\ Answered(latency)
  /\ elapsed' = [elapsed EXCEPT ![c] = @ + latency]
  /\ executions' = [executions EXCEPT ![c] = @ + 1]
  /\ tried' = [tried EXCEPT ![c] =
           Append(@, << Strategies[strategyIdx[c]], AnsweredOk(reply) >>)]
  /\ onlyReply' = [onlyReply EXCEPT ![c] = Observe(@, reply)]
  /\ strategyIdx' = [strategyIdx EXCEPT ![c] = @ + 1]
  /\ UNCHANGED << proxyVars, usageStats, pc, retryCount, result, attempts,
                  transport, caught, statsAtCall, wellFormed, ledger >>

\* the last strategy of the list fails: makeRequest throws
\* 'All proxy strategies failed'; makeRequestWithRetry either schedules a
\* retry or rethrows into generateRoast's catch block
StrategyFailedLast(c, reply, latency) ==
  LET now == elapsed[c] + latency
      out == Caught(usageStats, now)
  IN  /\ pc[c] = "dispatch"
      /\ reply.threw \/ ~Accepts(reply)
      /\ strategyIdx[c] = Len(Strategies)
      /\ Answered(latency)
      /\ elapsed' = [elapsed EXCEPT ![c] = now]
      /\ executions' = [executions EXCEPT ![c] = @ + 1]
      /\ tried' = [tried EXCEPT ![c] =
           Append(@, << Strategies[strategyIdx[c]], AnsweredOk(reply) >>)]
      /\ onlyReply' = [onlyReply EXCEPT ![c] = Observe(@, reply)]
      /\ transport' = [transport EXCEPT ![c] = "threw"]
      /\ IF retryCount[c] < maxRetries /\ shouldRetry(AllFailedMessage)
         THEN /\ pc' = [pc EXCEPT ![c] = "backoff"]
              /\ UNCHANGED << usageStats, result, caught, ledger >>
         ELSE /\ pc' = [pc EXCEPT ![c] = "returned"]
              /\ usageStats' = out.stats
              /\ result' = [result EXCEPT ![c] = out.result]
              /\ caught' = [caught EXCEPT ![c] = out.caught]
              /\ ledger' = Booked(out.result, reply)
      /\ UNCHANGED << proxyVars, retryCount, strategyIdx, attempts, statsAtCall,
                  wellFormed >>

\* the backoff timer fires: makeRequestWithRetry(requestBody, retryCount + 1)
\* calls makeRequest again, which starts at the head of the list
Backoff(c) ==
  /\ pc[c] = "backoff"
  /\ elapsed' = [elapsed EXCEPT ![c] = @ + BackoffDelay(retryCount[c])]
  /\ retryCount' = [retryCount EXCEPT ![c] = @ + 1]
  /\ strategyIdx' = [strategyIdx EXCEPT ![c] = 1]
  /\ attempts' = [attempts EXCEPT ![c] = @ + 1]
  /\ tried' = [tried EXCEPT ![c] = << >>]
  /\ transport' = [transport EXCEPT ![c] = "none"]
  /\ pc' = [pc EXCEPT ![c] = "dispatch"]
  /\ UNCHANGED << proxyVars, usageStats, result, executions, onlyReply, caught,
                  statsAtCall, wellFormed, ledger, slowAnswers, auxVars >>

\* the caller takes the result, or catches the rejection: nothing of the call
\* is kept
Return(c) ==
  /\ pc[c] \in {"returned", "rejected"}
  /\ pc' = [pc EXCEPT ![c] = "done"]
  /\ elapsed' = [elapsed EXCEPT ![c] = 0]
  /\ retryCount' = [retryCount EXCEPT ![c] = 0]
  /\ strategyIdx' = [strategyIdx EXCEPT ![c] = 0]
  /\ result' = [result EXCEPT ![c] = NoResult]
  /\ attempts' = [attempts EXCEPT ![c] = 0]
  /\ executions' = [executions EXCEPT ![c] = 0]
  /\ tried' = [tried EXCEPT ![c] = << >>]
  /\ transport' = [transport EXCEPT ![c] = "none"]
  /\ onlyReply' = [onlyReply EXCEPT ![c] = "none"]
  /\ caught' = [caught EXCEPT ![c] = FALSE]
  /\ statsAtCall' = [statsAtCall EXCEPT ![c] = InitialUsageStats]
  /\ wellFormed' = [wellFormed EXCEPT ![c] = FALSE]
  /\ UNCHANGED << proxyVars, usageStats, ledger, slowAnswers, auxVars >>

\* what the strategy makeRequest is at answers, and after how long
Answers(c) ==
  StrategyReplies(Strategies[strategyIdx[c]])
  \X StrategyLatencies(Strategies[strategyIdx[c]])

Accepted(c) ==
  /\ pc[c] = "dispatch"
  /\ \E a \in Answers(c) : StrategyAccepted(c, a[1], a[2])
  /\ UNCHANGED auxVars

FailedNext(c) ==
  /\ pc[c] = "dispatch"
  /\ \E a \in Answers(c) : StrategyFailedNext(c, a[1], a[2])
  /\ UNCHANGED auxVars

FailedLast(c) ==
  /\ pc[c] = "dispatch"
  /\ \E a \in Answers(c) : StrategyFailedLast(c, a[1], a[2])
  /\ UNCHANGED auxVars

Call(c) ==
  /\ \E img \in Images : generateRoast(c, img)
  /\ UNCHANGED auxVars

Next ==
  \E c \in Calls :
    \/ Call(c)
    \/ Accepted(c)
    \/ FailedNext(c)
    \/ FailedLast(c)
    \/ Backoff(c)
    \/ Return(c)

Spec == Init /\ [][Next]_vars

\* every strategy execution settles (fetch resolves or rejects, the mock's
\* timer fires) and every backoff timer fires; nothing obliges a caller to
\* make a call or to take its result
Settles ==
  \A c \in Calls :
    /\ WF_vars(Accepted(c) \/ FailedNext(c) \/ FailedLast(c))
    /\ WF_vars(Backoff(c))

SpecLive == Init /\ [][Next]_vars /\ Settles

\* -------------------------------------- the client on a configured proxy

\* the configs drawn: the detected strategy without fallbacks, a primary
\* backed by the mock, and a name that is no strategy with the default
\* fallbacks
Configs ==
  { [strategy |-> "", fallbackStrategies |-> Configured(<< >>)],
    [strategy |-> PROXY_STRATEGIES.DIRECT,
     fallbackStrategies |-> Configured(<< PROXY_STRATEGIES.MOCK >>)],
    [strategy |-> "bogus", fallbackStrategies |-> NotConfigured] }

\* a CorsProxy made in a browser from one of the configs, and the client
InitProxy ==
  /\ jest = FALSE /\ proxyHealth = "ok"
  /\ \E config \in Configs :
       /\ strategy = CorsProxyOf(config, jest, proxyHealth).strategy
       /\ fallbackStrategies =
            CorsProxyOf(config, jest, proxyHealth).fallbackStrategies
  /\ CallsInit
  /\ NoText
  /\ EncoderInit
  /\ ValidatorInit
  /\ MoreInit

\* Accepted, seen by the observer of the dispatcher
AcceptedFrom(c) ==
  /\ pc[c] = "dispatch"
  /\ \E a \in Answers(c) : StrategyAccepted(c, a[1], a[2])
  /\ lastWinner' = strategyIdx[c]
  /\ UNCHANGED << textVars, encoderVars, validatorVars, requestVars,
                  errorVars, callerVars, app, shellVars >>

NextProxy ==
  \E c \in Calls :
    \/ Call(c)
    \/ AcceptedFrom(c)
    \/ FailedNext(c)
    \/ FailedLast(c)
    \/ Backoff(c)
    \/ Return(c)

SpecProxy == InitProxy /\ [][NextProxy]_vars

\* ------------------------------------------- the client under concurrency

\* another call is between its first await and its return
OthersInFlight(c) ==
  \E d \in Calls \ {c} : pc[d] \in {"dispatch", "backoff"}

\* the observer adds a usage update made by call c: one request, an error
\* for updateUsageStats(_, false), the reported tokens for
\* updateUsageStats(_, true, usage)
Applied(c, success, tokens) ==
  [requests |-> applied.requests + 1,
   errors |-> applied.errors + (IF success THEN 0 ELSE 1),
   tokens |-> applied.tokens + (IF success THEN tokens ELSE 0),
   interleaved |-> applied.interleaved + (IF OthersInFlight(c) THEN 1 ELSE 0)]

\* the answers drawn for concurrent calls come within the millisecond and are
\* an exception, a 200 whose body does not parse, or a 200 with a completion
\* and with or without usage
QuickAnswers(c) ==
  { a \in Answers(c) :
      /\ a[2] = 0
      /\ \/ a[1].threw
         \/ a[1].ok /\ ~a[1].data.parses
         \/ a[1].ok /\ a[1].data.content = [defined |-> TRUE,
                                            text |-> << "h", "i" >>] }

\* a call with no image, or with a valid one
ConcurrentCall(c) ==
  /\ \E img \in {NullImage, StringImage(TRUE, 37)} : generateRoast(c, img)
  /\ UNCHANGED auxVars

\* Accepted, seen by the observer: the update is updateUsageStats(_, true,
\* data.usage) unless the catch block ran
AcceptedUpdate(c) ==
  /\ pc[c] = "dispatch"
  /\ \E a \in QuickAnswers(c) :
       /\ StrategyAccepted(c, a[1], a[2])
       /\ applied' = Applied(c, ~caught'[c], Reported(a[1]))
  /\ UNCHANGED << textVars, encoderVars, validatorVars, requestVars,
                  errorVars, lastWinner, callerAwaits, app, shellVars >>

\* FailedLast, seen by the observer: the catch block's update, when no retry
\* follows
FailedLastUpdate(c) ==
  /\ pc[c] = "dispatch"
  /\ \E a \in QuickAnswers(c) : StrategyFailedLast(c, a[1], a[2])
  /\ applied' = IF pc'[c] = "returned" THEN Applied(c, FALSE, 0) ELSE applied
  /\ UNCHANGED << textVars, encoderVars, validatorVars, requestVars,
                  errorVars, lastWinner, callerAwaits, app, shellVars >>

FailedNextQuick(c) ==
  /\ pc[c] = "dispatch"
  /\ \E a \in QuickAnswers(c) : StrategyFailedNext(c, a[1], a[2])
  /\ UNCHANGED auxVars

\* the singletons in a browser, and callers who do not await
InitConcurrent ==
  /\ ClientInit
  /\ ~jest /\ proxyHealth = "ok"
  /\ NoText
  /\ EncoderInit
  /\ ValidatorInit
  /\ NoRequest /\ NoErrorResponse /\ lastWinner = 0
  /\ callerAwaits = FALSE /\ applied = NoUpdates
  /\ app = NewApp /\ ShellInit

NextConcurrent ==
  \E c \in Calls :
    \/ ConcurrentCall(c)
    \/ AcceptedUpdate(c)
    \/ FailedNextQuick(c)
    \/ FailedLastUpdate(c)
    \/ Backoff(c)
    \/ Return(c)

SpecConcurrent == InitConcurrent /\ [][NextConcurrent]_vars

\* ------------------------------------- processSuccessResponse on its own

\* a parsed 2xx body whose completion text is any short text
InitText ==
  /\ ClientInit
  /\ ~jest /\ proxyHealth = "ok"
  /\ completion \in { [defined |-> TRUE, text |-> t] : t \in Texts }
  /\ processed = NoResult
  /\ EncoderInit
  /\ ValidatorInit
  /\ MoreInit

\* generateRoast hands the parsed body to processSuccessResponse
ProcessText ==
  /\ processed = NoResult
  /\ completion.defined
  /\ processed' =
       processSuccessResponse([choices |-> "one", content |-> completion],
                              MockDelay)
  /\ UNCHANGED << clientVars, completion, encoderVars, validatorVars, moreVars >>

NextText == ProcessText

SpecText == InitText /\ [][NextText]_vars

\* ------------------------------------------ imageProcessor.convertToBase64

\* the file argument: null, undefined, a string, or an object with or without
\* name, fileName, a numeric size and a string type; blob tells whether it
\* is a Blob, which readAsDataURL requires, and the Blobs drawn are Files,
\* which have name, size and type
Files ==
  { [NoFile EXCEPT !.kind = k] : k \in {"null", "undefined", "string"} }
  \cup { f \in [kind : {"object"}, name : BOOLEAN, fileName : BOOLEAN,
                size : BOOLEAN, type : BOOLEAN, blob : BOOLEAN] :
           /\ ~(f.name /\ f.fileName)
           /\ f.blob => (f.name /\ f.size /\ f.type) }

\* the options argument: {} or {timeout: n}
Options ==
  { NoOptions, [given |-> TRUE, timeout |-> 0], [given |-> TRUE, timeout |-> 5000] }

defaultTimeout == 10000

\* a timeout taken from the default whatever the options say
AlwaysDefaultTimeout(opts) == defaultTimeout

\* options.timeout || 10000: an absent timeout and a timeout of 0 are falsy
EffectiveTimeout(opts) ==
  IF opts.given /\ opts.timeout # 0 THEN opts.timeout ELSE defaultTimeout

\* the file-likeness test without its check of file.type
IsFileLikeUntyped(f) ==
  /\ f.kind = "object"
  /\ f.name \/ f.fileName
  /\ f.size

\* the negation of the condition at lines 58-61
IsFileLike(f) ==
  /\ f.kind = "object"
  /\ f.name \/ f.fileName
  /\ f.size
  /\ f.type

\* a failure result whose error carries timestamp: Date.now()
EncodingFailure(kind, message) ==
  [success |-> FALSE, base64Data |-> "null",
   error |-> [type |-> kind, message |-> message, timestamp |-> "Date.now()"]]

\* what convertToBase64 returns before any I/O, if it does
FailFast(f) ==
  IF f.kind \in {"null", "undefined"}
  THEN [fails |-> TRUE,
        outcome |-> EncodingFailure("invalid_input", "No file provided")]
  ELSE IF ~IsFileLike(f)
  THEN [fails |-> TRUE,
        outcome |-> EncodingFailure("conversion_failed",
          "Invalid file object - missing required properties (name, size, type)")]
  ELSE [fails |-> FALSE, outcome |-> NoResult]

\* the timeout callback's result: its error has no timestamp
TimeoutOutcome ==
  [success |-> FALSE, base64Data |-> "null",
   error |-> [type |-> "timeout", message |-> "File processing timeout"]]

ReadErrorOutcome == EncodingFailure("read_error", "Failed to read file")

Encoded(processingTime) ==
  [success |-> TRUE, base64Data |-> "data:", processingTimeMs |-> processingTime]

Pending == [state |-> "pending", value |-> NoResult]

Fulfilled(value) == [state |-> "fulfilled", value |-> value]

\* the executor threw: reader.readAsDataURL(file) takes a Blob only
Rejected == [state |-> "rejected", value |-> NoResult]

\* the resolve function of the promise: a settled promise stays as it is
Resolve(p, value) == IF p.state = "pending" THEN Fulfilled(value) ELSE p

updateMetrics(metrics, processingTime, success) ==
  [totalProcessed |-> metrics.totalProcessed + 1,
   totalTime |-> metrics.totalTime + processingTime,
   successCount |-> metrics.successCount + (IF success THEN 1 ELSE 0),
   errorCount |-> metrics.errorCount + (IF success THEN 0 ELSE 1)]

\* the first event of a conversion stays the first
First(k, event) ==
  [firstEvent EXCEPT ![k] = IF @ = "none" THEN event ELSE @]

\* convertToBase64(file, options) up to its return: the checks, and for a
\* file that passes them the promise executor, which counts the reader, arms
\* the timer and starts the read; the read takes rt ms
convertToBase64(k, f, opts, rt) ==
  /\ promise[k].state = "none"
  /\ \A j \in Conversions : j < k => promise[j].state # "none"
  /\ file' = [file EXCEPT ![k] = f]
  /\ IF FailFast(f).fails
     THEN /\ promise' = [promise EXCEPT ![k] = Fulfilled(FailFast(f).outcome)]
          /\ UNCHANGED << activeReaders, timeoutId, reader, options, readTime >>
     ELSE /\ activeReaders' = activeReaders + 1
          /\ options' = [options EXCEPT ![k] = opts]
          /\ timeoutId' = [timeoutId EXCEPT ![k] = "armed"]
          /\ IF f.blob
             THEN /\ reader' = [reader EXCEPT ![k] = "reading"]
                  /\ readTime' = [readTime EXCEPT ![k] = rt]
                  /\ promise' = [promise EXCEPT ![k] = Pending]
             ELSE /\ promise' = [promise EXCEPT ![k] = Rejected]
                  /\ UNCHANGED << reader, readTime >>
  /\ UNCHANGED << performanceMetrics, firstEvent >>

\* the timer set at line 87 fires: it was not cleared, and the read, if one
\* is under way, is not due before it
TimerFires(k) ==
  /\ timeoutId[k] = "armed"
  /\ reader[k] = "reading" => EffectiveTimeout(options[k]) <= readTime[k]
  /\ timeoutId' = [timeoutId EXCEPT ![k] = "fired"]
  /\ activeReaders' = activeReaders - 1
  /\ promise' = [promise EXCEPT ![k] = Resolve(@, TimeoutOutcome)]
  /\ firstEvent' = First(k, "timer")
  /\ UNCHANGED << clientVars, textVars, validatorVars, moreVars,
                  performanceMetrics,
                  reader, options, readTime, file >>

\* clearTimeout(timeoutId): nothing happens to a timer that has fired
Cleared(k) ==
  [timeoutId EXCEPT ![k] = IF @ = "armed" THEN "cleared" ELSE @]

\* reader.onload: the read is due no later than an armed timer, or the timer
\* has fired and the read, which nothing aborted, completes late
ReaderLoad(k) ==
  /\ reader[k] = "reading"
  /\ timeoutId[k] = "armed" => readTime[k] <= EffectiveTimeout(options[k])
  /\ reader' = [reader EXCEPT ![k] = "loaded"]
  /\ timeoutId' = Cleared(k)
  /\ activeReaders' = activeReaders - 1
  /\ performanceMetrics' = updateMetrics(performanceMetrics, readTime[k], TRUE)
  /\ promise' = [promise EXCEPT ![k] = Resolve(@, Encoded(readTime[k]))]
  /\ firstEvent' = First(k, "load")
  /\ UNCHANGED << clientVars, textVars, validatorVars, moreVars, options,
                  readTime, file >>

\* reader.onerror
ReaderError(k) ==
  /\ reader[k] = "reading"
  /\ timeoutId[k] = "armed" => readTime[k] <= EffectiveTimeout(options[k])
  /\ reader' = [reader EXCEPT ![k] = "failed"]
  /\ timeoutId' = Cleared(k)
  /\ activeReaders' = activeReaders - 1
  /\ performanceMetrics' = updateMetrics(performanceMetrics, readTime[k], FALSE)
  /\ promise' = [promise EXCEPT ![k] = Resolve(@, ReadErrorOutcome)]
  /\ firstEvent' = First(k, "error")
  /\ UNCHANGED << clientVars, textVars, validatorVars, moreVars, options,
                  readTime, file >>

Convert(k) ==
  /\ \E f \in Files, opts \in Options, rt \in ReadTimes :
       convertToBase64(k, f, opts, rt)
  /\ UNCHANGED << clientVars, textVars, validatorVars, moreVars >>

InitEncoder ==
  /\ ClientInit
  /\ ~jest /\ proxyHealth = "ok"
  /\ NoText
  /\ EncoderInit
  /\ ValidatorInit
  /\ MoreInit

NextEncoder ==
  \E k \in Conversions :
    \/ Convert(k)
    \/ TimerFires(k)
    \/ ReaderLoad(k)
    \/ ReaderError(k)

SpecEncoder == InitEncoder /\ [][NextEncoder]_vars

\* ------------------------------------------------ fileValidator.validateFile

UPLOAD_CONSTRAINTS ==
  [MAX_FILE_SIZE_BYTES |-> 5 * 1024 * 1024,
   SUPPORTED_FORMATS |-> << "image/jpeg", "image/png", "image/gif", "image/webp" >>]

\* Array.prototype.includes
ArrayIncludes(array, x) == \E i \in 1..Len(array) : array[i] = x

\* file.size: absent or no number, or a number around the limits
Sizes ==
  { [isNumber |-> FALSE, value |-> 0] }
  \cup { [isNumber |-> TRUE, value |-> n] :
           n \in { 0, 1, 1024 * 1024,
                   UPLOAD_CONSTRAINTS.MAX_FILE_SIZE_BYTES - 1,
                   UPLOAD_CONSTRAINTS.MAX_FILE_SIZE_BYTES,
                   UPLOAD_CONSTRAINTS.MAX_FILE_SIZE_BYTES + 1,
                   6 * 1024 * 1024 } }

\* file.type: absent, empty, a supported type, or another one
Types ==
  { [isString |-> FALSE, value |-> ""] }
  \cup { [isString |-> TRUE, value |-> t] :
           t \in { "", "image/jpeg", "image/png", "image/gif", "image/webp",
                   "application/pdf", "image/bmp" } }

Uploads ==
  { [NoUpload EXCEPT !.kind = k] : k \in {"null", "undefined", "string"} }
  \cup [kind : {"object"}, ownName : BOOLEAN, slice : BOOLEAN, size : Sizes,
        type : Types]

Invalid(kind, message) ==
  [isValid |-> FALSE, error |-> [type |-> kind, message |-> message]]

\* a size check that lets an empty file through
validateFileSizeOfNonEmpty(f) ==
  IF f.size.value > UPLOAD_CONSTRAINTS.MAX_FILE_SIZE_BYTES
  THEN Invalid("file_size",
               "File size exceeds 5MB limit. Please choose a smaller image.")
  ELSE [isValid |-> TRUE]

\* validateFileSize, of a file that is an object with a numeric size
validateFileSize(f) ==
  IF f.size.value = 0
  THEN Invalid("file_invalid", "File is empty or corrupted")
  ELSE IF f.size.value > UPLOAD_CONSTRAINTS.MAX_FILE_SIZE_BYTES
  THEN Invalid("file_size",
               "File size exceeds 5MB limit. Please choose a smaller image.")
  ELSE [isValid |-> TRUE]

\* validateFileFormat, of a file that is an object: !file.type holds of an
\* absent and of an empty type
validateFileFormat(f) ==
  IF ~f.type.isString \/ f.type.value = ""
  THEN Invalid("file_format",
               "Please upload JPEG, PNG, GIF, or WebP images only.")
  ELSE IF ~ArrayIncludes(UPLOAD_CONSTRAINTS.SUPPORTED_FORMATS, f.type.value)
  THEN Invalid("file_format",
               "Please upload JPEG, PNG, GIF, or WebP images only.")
  ELSE [isValid |-> TRUE]

\* checkMagicNumbers returns true whatever the bytes
checkMagicNumbers(mimeType) == TRUE

\* validateFile up to its await: the result it returns at once, or none
\* when it goes on to validateFileHeaders
Prechecked(f) ==
  IF f.kind \in {"null", "undefined"}
  THEN Invalid("missing_file", "No file provided")
  ELSE IF f.kind # "object" \/ ~f.ownName \/ ~f.size.isNumber \/ ~f.type.isString
  THEN Invalid("file_invalid", "Invalid file object provided")
  ELSE IF ~validateFileSize(f).isValid THEN validateFileSize(f)
  ELSE IF ~validateFileFormat(f).isValid THEN validateFileFormat(f)
  ELSE NoResult

\* validateFile(file) up to its return or its await of validateFileHeaders,
\* whose promise executor calls file.slice(0, 4): a TypeError on an object
\* without that method, which rejects the promise
validateFile(f) ==
  /\ validation.state = "none"
  /\ upload' = f
  /\ IF Prechecked(f) # NoResult
     THEN /\ validation' = Fulfilled(Prechecked(f))
          /\ UNCHANGED headerReader
     ELSE IF ~f.slice
     THEN /\ validation' = Rejected
          /\ UNCHANGED headerReader
     ELSE /\ validation' = Pending
          /\ headerReader' = "reading"
  /\ UNCHANGED << clientVars, textVars, encoderVars, moreVars >>

\* reader.onload of validateFileHeaders, and the rest of validateFile
HeaderLoad ==
  /\ headerReader = "reading"
  /\ headerReader' = "done"
  /\ validation' =
       IF checkMagicNumbers(upload.type.value)
       THEN Fulfilled([isValid |-> TRUE,
                       fileInfo |-> [size |-> upload.size.value,
                                     type |-> upload.type.value]])
       ELSE Fulfilled(Invalid("file_invalid",
                              "File header does not match file type"))
  /\ UNCHANGED << clientVars, textVars, encoderVars, moreVars, upload >>

\* reader.onerror of validateFileHeaders
HeaderError ==
  /\ headerReader = "reading"
  /\ headerReader' = "done"
  /\ validation' = Fulfilled(Invalid("file_invalid", "Unable to read file header"))
  /\ UNCHANGED << clientVars, textVars, encoderVars, moreVars, upload >>

Validate == \E f \in Uploads : validateFile(f)

InitValidator ==
  /\ ClientInit
  /\ ~jest /\ proxyHealth = "ok"
  /\ NoText
  /\ EncoderInit
  /\ ValidatorInit
  /\ MoreInit

NextValidator ==
  \/ Validate
  \/ HeaderLoad
  \/ HeaderError

SpecValidator == InitValidator /\ [][NextValidator]_vars

\* ---------------------------------------------------------------- PhotoUpload

\* the files a file input or a drop hands over: File objects, whose name,
\* size, type and slice method the browser provides
PickedFiles ==
  [kind : {"object"}, ownName : {TRUE}, slice : {TRUE},
   size : { s \in Sizes : s.isNumber } \cup { [isNumber |-> TRUE, value |-> 1024] },
   type : { t \in Types : t.isString }
          \cup { [isString |-> TRUE, value |-> t] :
                   t \in {"image/svg+xml", "text/plain"} }]

\* file.type.startsWith('image/'), of the types drawn
StartsWithImage(type) ==
  type \in {"image/jpeg", "image/png", "image/gif", "image/webp", "image/bmp",
            "image/svg+xml"}

\* PhotoUpload.handleFileSelect for an event that carries a file: the inline
\* check, then either currentFile, onFileSelect(file) and the success
\* message, or onValidationError and an error message. No preview is shown
\* (showPreview: false), so the handler runs to its end without an await.
FilePicked(f) ==
  LET isValidType == StartsWithImage(f.type.value)
      isValidSize == f.size.value <= 5 * 1024 * 1024
  IN  /\ photoUpload' =
           IF isValidType /\ isValidSize
           THEN [fileInput |-> f, currentFile |-> f, message |-> "success"]
           ELSE [photoUpload EXCEPT !.fileInput = f, !.message = "error"]
      /\ UNCHANGED << clientVars, textVars, encoderVars, validatorVars,
                      requestVars, errorVars, lastWinner, callerVars, app,
                      swCaches, lastFetch >>

\* PhotoUpload.removeFile, which resetApp calls
FileRemoved ==
  /\ photoUpload # NewPhotoUpload
  /\ photoUpload' = NewPhotoUpload
  /\ UNCHANGED << clientVars, textVars, encoderVars, validatorVars,
                  requestVars, errorVars, lastWinner, callerVars, app,
                  swCaches, lastFetch >>

InitUpload ==
  /\ ClientInit
  /\ ~jest /\ proxyHealth = "ok"
  /\ NoText
  /\ EncoderInit
  /\ ValidatorInit
  /\ MoreInit

NextUpload ==
  \/ \E f \in PickedFiles : FilePicked(f)
  \/ FileRemoved

SpecUpload == InitUpload /\ [][NextUpload]_vars

\* ------------------------------------------------------- the service worker

\* STATIC_ASSETS of sw.js, of which the requests drawn use /index.html
STATIC_ASSETS ==
  {"/", "/index.html", "/app.js", "/src/styles/main.css",
   "/src/styles/components.css", "/manifest.json", "/favicon.ico"}

API_ENDPOINTS == {"https://api.openai.com/v1/chat/completions"}

\* the requests of the page that reach the worker: the app shell, an image
\* that is no listed asset, the completion endpoint and some other content,
\* each asked for with GET or with POST, as a navigation or by a script
Requests ==
  [method : {"GET", "POST"},
   mode : {"navigate", "cors"},
   url : {"/index.html", "/logo.png",
          "https://api.openai.com/v1/chat/completions", "/feed"}]

\* a worker that answers every request
InterceptsAll(request) == TRUE

\* the method test at the head of the fetch listener
Intercepts(request) == request.method = "GET"

\* the pathname is a listed asset or ends in an asset extension (.png)
isStaticAsset(request) ==
  request.url \in STATIC_ASSETS \/ request.url = "/logo.png"

\* request.url starts with an API endpoint
isApiCall(request) == request.url \in API_ENDPOINTS

\* caches.match: an entry for the URL in any cache
CacheMatch(c, url) == \E name \in DOMAIN c : \E entry \in c[name] : entry.url = url

\* cache.put(request, response) on the cache of that name: the entry is
\* keyed by the request's URL, and the model keeps the method beside it
CachePut(c, name, request) ==
  [c EXCEPT ![name] = @ \cup {[method |-> request.method, url |-> request.url]}]

\* the three handlers: what the caches hold afterwards and where the
\* response came from; network is what fetch(request) did ("ok", "notok",
\* "threw")
handleStaticAsset(c, request, network) ==
  IF CacheMatch(c, request.url) THEN [caches |-> c, from |-> "cache"]
  ELSE IF network = "threw" THEN [caches |-> c, from |-> "offline"]
  ELSE IF network = "ok"
  THEN [caches |-> CachePut(c, "static", request), from |-> "network"]
  ELSE [caches |-> c, from |-> "network"]

\* fresh: the cached response is less than an hour old
handleApiCall(c, request, network, fresh) ==
  IF network = "ok"
  THEN [caches |-> CachePut(c, "dynamic", request), from |-> "network"]
  ELSE IF network = "notok" THEN [caches |-> c, from |-> "network"]
  ELSE IF CacheMatch(c, request.url) /\ fresh
  THEN [caches |-> c, from |-> "cache"]
  ELSE [caches |-> c, from |-> "offline"]

handleDynamicContent(c, request, network) ==
  IF network = "ok"
  THEN [caches |-> CachePut(c, "dynamic", request), from |-> "network"]
  ELSE IF network = "notok" THEN [caches |-> c, from |-> "network"]
  ELSE IF CacheMatch(c, request.url) THEN [caches |-> c, from |-> "cache"]
  ELSE IF request.mode = "navigate" /\ CacheMatch(c, "/index.html")
  THEN [caches |-> c, from |-> "cache"]
  ELSE [caches |-> c, from |-> "offline"]

\* the fetch listener: a request it does not intercept goes to the network
\* as if there were no worker
FetchEvent(request, network, fresh) ==
  LET out == IF ~Intercepts(request) THEN [caches |-> swCaches, from |-> "browser"]
             ELSE IF isStaticAsset(request)
             THEN handleStaticAsset(swCaches, request, network)
             ELSE IF isApiCall(request)
             THEN handleApiCall(swCaches, request, network, fresh)
             ELSE handleDynamicContent(swCaches, request, network)
  IN  /\ swCaches' = out.caches
      /\ lastFetch' = [handled |-> out.from, request |-> request]
      /\ UNCHANGED << clientVars, textVars, encoderVars, validatorVars,
                      requestVars, errorVars, lastWinner, callerVars, app,
                      photoUpload >>

\* the worker is installed and active: the install listener has put the
\* static assets into the static cache, or has failed to (it only logs that)
InitWorker ==
  /\ ClientInit
  /\ ~jest /\ proxyHealth = "ok"
  /\ NoText
  /\ EncoderInit
  /\ ValidatorInit
  /\ NoRequest /\ NoErrorResponse /\ lastWinner = 0 /\ OneCaller
  /\ app = NewApp
  /\ photoUpload = NewPhotoUpload
  /\ LET precached == { [method |-> "GET", url |-> asset] : asset \in STATIC_ASSETS }
     IN  swCaches \in { NoCaches, [NoCaches EXCEPT !["static"] = precached] }
  /\ lastFetch = NoFetch

NextWorker ==
  \E request \in Requests, network \in {"ok", "notok", "threw"},
     fresh \in BOOLEAN : FetchEvent(request, network, fresh)

SpecWorker == InitWorker /\ [][NextWorker]_vars

\* ---------------------------------------------- buildRequestBody on its own

\* API_CONFIG of utils/config.js; a temperature is kept in hundredths
API_CONFIG == [OPENAI_MODEL |-> "gpt-4o", MAX_TOKENS |-> 300, TEMPERATURE |-> 90]

\* the personas table of getPersonaPrompt: each prompt stands as its opening
\* words
personas ==
  [k \in {"virat-kohli", "arnab-goswami", "rajinikanth", "shashi-tharoor",
          "bhuvan-bam", "karan-johar", "sunil-grover", "jackie-shroff",
          "raghu-roadies"} |->
     CASE k = "virat-kohli" -> "DEMOLISH this photo like Virat Kohli"
       [] k = "arnab-goswami" -> "DESTROY this photo like Arnab Goswami"
       [] k = "rajinikanth" -> "Roast this photo with Rajinikanth's"
       [] k = "shashi-tharoor" -> "INTELLECTUALLY DESTROY this photo"
       [] k = "bhuvan-bam" -> "SAVAGE this photo like Bhuvan Bam"
       [] k = "karan-johar" -> "TEAR APART this photo like Karan Johar"
       [] k = "sunil-grover" -> "Channel Gutthi/Dr. Gulati"
       [] k = "jackie-shroff" -> "Roast this photo like Jackie Shroff"
       [] k = "raghu-roadies" -> "ABSOLUTELY DESTROY this photo like Raghu"]

\* the property names every object literal inherits from Object.prototype
\* (those drawn as keys)
InheritedKeys == {"toString"}

\* personas[key]: the entry, an inherited method, or undefined
Lookup(key) ==
  IF key \in DOMAIN personas THEN [type |-> "string", text |-> personas[key]]
  ELSE IF key \in InheritedKeys THEN [type |-> "function", text |-> key]
  ELSE [type |-> "undefined", text |-> ""]

\* getPersonaPrompt(persona = 'kapil-sharma'):
\* personas[persona] || personas['kapil-sharma']
getPersonaPrompt(persona) ==
  LET key == IF persona.given THEN persona.key ELSE "kapil-sharma"
  IN  IF Lookup(key).type # "undefined" THEN Lookup(key)
      ELSE Lookup("kapil-sharma")

\* an option that was not given
Omitted == [given |-> FALSE, key |-> "", text |-> "", value |-> 0]

\* the options argument: customPrompt and persona are absent or strings,
\* maxTokens and temperature (in hundredths) absent or numbers
RequestOptions ==
  [customPrompt : { Omitted } \cup
                  { [Omitted EXCEPT !.given = TRUE, !.text = t] :
                      t \in {"", "Be kind"} },
   persona : { Omitted } \cup
             { [Omitted EXCEPT !.given = TRUE, !.key = k] :
                 k \in {"virat-kohli", "raghu-roadies", "kapil-sharma",
                        "nobody", "toString"} },
   maxTokens : { Omitted } \cup
               { [Omitted EXCEPT !.given = TRUE, !.value = n] : n \in {0, 150} },
   temperature : { Omitted } \cup
                 { [Omitted EXCEPT !.given = TRUE, !.value = n] :
                     n \in {0, 50} }]

\* buildRequestBody(base64Image, options): a || b is b when a is undefined,
\* the empty string or 0
buildRequestBody(base64Image, opts) ==
  LET prompt == IF opts.customPrompt.given /\ opts.customPrompt.text # ""
                THEN [type |-> "string", text |-> opts.customPrompt.text]
                ELSE getPersonaPrompt(opts.persona)
  IN  [model |-> API_CONFIG.OPENAI_MODEL,
       messages |->
         << [role |-> "user",
             content |-> << [type |-> "text", text |-> prompt],
                            [type |-> "image_url", url |-> base64Image] >>] >>,
       max_tokens |-> IF opts.maxTokens.given /\ opts.maxTokens.value # 0
                      THEN opts.maxTokens.value ELSE API_CONFIG.MAX_TOKENS,
       temperature |-> IF opts.temperature.given /\ opts.temperature.value # 0
                       THEN opts.temperature.value ELSE API_CONFIG.TEMPERATURE]

\* generateRoast builds the request body for a validated image
BuildRequest ==
  /\ requestBody = NoResult
  /\ requestBody' = buildRequestBody(StringImage(TRUE, 37), requestOptions)
  /\ UNCHANGED << clientVars, textVars, encoderVars, validatorVars,
                  requestOptions, errorVars, lastWinner, callerVars, app,
                  shellVars >>

InitRequest ==
  /\ ClientInit
  /\ ~jest /\ proxyHealth = "ok"
  /\ NoText
  /\ EncoderInit
  /\ ValidatorInit
  /\ requestOptions \in RequestOptions
  /\ requestBody = NoResult
  /\ NoErrorResponse
  /\ lastWinner = 0
  /\ OneCaller
  /\ app = NewApp /\ ShellInit

NextRequest == BuildRequest

SpecRequest == InitRequest /\ [][NextRequest]_vars

\* ------------------------------------------ processErrorResponse on its own

\* the statuses of a response that is not ok
ErrorStatuses == {400, 401, 403, 404, 429, 500, 502, 503}

\* what response.json().catch(() => ({})) gives: {} for a body that is no
\* JSON, the body's value otherwise, here null, an object without error.code
\* or an object with one
ErrorDatas ==
  { [kind |-> "null", code |-> "none"] }
  \cup { [kind |-> "object", code |-> k] :
           k \in {"none", "content_policy_violation", "invalid_api_key"} }

ErrorResponses ==
  [status : ErrorStatuses, errorData : ErrorDatas,
   processingTime : {MockDelay, TimeoutMs + MockDelay}]

\* generateRoast hands a response that is not ok to processErrorResponse
ProcessError ==
  /\ errorResult = NoResult
  /\ errorResult' =
       processErrorResponse([status |-> errorResponse.status],
                            errorResponse.errorData,
                            errorResponse.processingTime)
  /\ UNCHANGED << clientVars, textVars, encoderVars, validatorVars,
                  requestVars, errorResponse, lastWinner, callerVars, app,
                  shellVars >>

InitError ==
  /\ ClientInit
  /\ ~jest /\ proxyHealth = "ok"
  /\ NoText
  /\ EncoderInit
  /\ ValidatorInit
  /\ NoRequest
  /\ errorResponse \in ErrorResponses
  /\ errorResult = NoResult
  /\ lastWinner = 0
  /\ OneCaller
  /\ app = NewApp /\ ShellInit

NextError == ProcessError

SpecError == InitError /\ [][NextError]_vars

\* --------------------------------------------------------- the app's page

\* The user selects a file in the upload step: PhotoUpload hands it to
\* handleFileSelect, which awaits its conversion. PhotoUpload does not await
\* the handler, so a further file can be selected while one is converted.
FileSelected ==
  /\ app.currentStep = 1
  /\ Len(app.conversions) < MaxSelections
  /\ app' = [app EXCEPT !.conversions = Append(@, "pending")]
  /\ UNCHANGED pageOthers

\* handleFileSelect after its await
ConversionSettled(k) ==
  /\ k \in DOMAIN app.conversions
  /\ app.conversions[k] = "pending"
  /\ LET settled == [app EXCEPT !.conversions[k] = "settled"]
     IN  \E success \in BOOLEAN :
           app' = IF success
                  THEN goToStep([settled EXCEPT !.currentImageData = k], 2)
                  ELSE settled
  /\ UNCHANGED pageOthers

\* a click on a persona card in step 2
PersonaSelected(persona) ==
  /\ app.currentStep = 2
  /\ app.selectedPersona # persona
  /\ app' = [app EXCEPT !.selectedPersona = persona]
  /\ UNCHANGED pageOthers

\* the buttons of step 2 (Back, Continue) and of step 3 (Change Persona)
StepButton(stepNumber) ==
  /\ \/ app.currentStep = 2 /\ stepNumber \in {1, 3}
     \/ app.currentStep = 3 /\ stepNumber = 2
  /\ app' = goToStep(app, stepNumber)
  /\ Len(app'.roasts) <= MaxRoasts
  /\ UNCHANGED pageOthers

\* the button Try Another of step 3
ResetButton ==
  /\ app.currentStep = 3
  /\ app' = resetApp(app)
  /\ UNCHANGED pageOthers

\* a continuation without the finally block
RoastSettledKeepingFlag(r) ==
  /\ r \in DOMAIN app.roasts
  /\ ~app.roasts[r].settled
  /\ \E outcome \in {"roast", "error"} :
       app' = [app EXCEPT
                 !.roasts[r].settled = TRUE,
                 !.roastDisplay = [state |-> outcome, roast |-> r]]
  /\ UNCHANGED pageOthers

\* handleStartRoasting after its await: generateRoast gave a Success (the
\* roast is displayed) or a Failure, or it threw (an error is shown either
\* way), and the finally block clears the flag
RoastSettled(r) ==
  /\ r \in DOMAIN app.roasts
  /\ ~app.roasts[r].settled
  /\ \E outcome \in {"success", "failure", "threw"} :
       app' = [app EXCEPT
                 !.roasts[r].settled = TRUE,
                 !.roastDisplay =
                    [state |-> IF outcome = "success" THEN "roast" ELSE "error",
                     roast |-> r],
                 !.isProcessing = FALSE]
  /\ UNCHANGED pageOthers

InitApp ==
  /\ ClientInit
  /\ ~jest /\ proxyHealth = "ok"
  /\ NoText
  /\ EncoderInit
  /\ ValidatorInit
  /\ MoreInit

NextApp ==
  \/ FileSelected
  \/ \E k \in 1..MaxSelections : ConversionSettled(k)
  \/ \E persona \in PersonaOptions : PersonaSelected(persona)
  \/ \E stepNumber \in 1..3 : StepButton(stepNumber)
  \/ ResetButton
  \/ \E r \in 1..MaxRoasts : RoastSettled(r)

SpecApp == InitApp /\ [][NextApp]_vars

\* every generateRoast call the app awaits settles
SpecAppLive ==
  InitApp /\ [][NextApp]_vars /\ \A r \in 1..MaxRoasts : WF_vars(RoastSettled(r))

\* ------------------------------------------------------------- properties

Returned(c) == pc[c] = "returned"

\* the kind of the failure a call returned
Kind(c) == IF result[c].success THEN "success" ELSE result[c].error.type

\* C1, as stated: a call whose every makeRequest threw made exactly 3 of them
\* and returned network_error.
C1_AsStated ==
  \A c \in Calls :
    (Returned(c) /\ transport[c] = "threw") =>
      (attempts[c] = 3 /\ Kind(c) = "network_error")

\* C1, as amended: no call invokes makeRequest more than 3 times; a call whose
\* every makeRequest threw made exactly 3 invocations and returned a failure,
\* of kind timeout when more than 10000 ms had elapsed and of kind
\* network_error otherwise.
C1_RetryBound ==
  \A c \in Calls :
    /\ attempts[c] <= 3
    /\ (Returned(c) /\ transport[c] = "threw") =>
         /\ attempts[c] = 3
         /\ Kind(c) = IF elapsed[c] > 10000 THEN "timeout" ELSE "network_error"

\* a call has returned network_error after three failed makeRequest invocations
C1_Witness ==
  \E c \in Calls :
    /\ Returned(c) /\ transport[c] = "threw"
    /\ attempts[c] = 3 /\ executions[c] = 3 * Len(Strategies)
    /\ Kind(c) = "network_error"

\* C2: a call whose requests were all answered with HTTP 401 (the first one
\* included) sent exactly one request and invoked makeRequest exactly once.
C2_NoRetryOn401 ==
  \A c \in Calls :
    (Returned(c) /\ onlyReply[c] = "401") =>
      (attempts[c] = 1 /\ executions[c] = 1)

\* C3: a call whose requests were answered with HTTP 429 returns rate_limit
\* with retryAfterSeconds = 60, after a single makeRequest invocation.
C3_RateLimit ==
  \A c \in Calls :
    (Returned(c) /\ onlyReply[c] = "429") =>
      /\ Kind(c) = "rate_limit"
      /\ result[c].error.retryAfterSeconds = 60
      /\ attempts[c] = 1

\* C4: within one makeRequest the strategies are executed in list order from
\* the primary on, one at a time; nothing is executed after a response with a
\* success status, which is what makeRequest returns; a strategy that threw or
\* answered non-ok is followed by the next one; and makeRequest throws exactly
\* when the whole list has been executed without a success status.
C4_StrategyOrder ==
  \A c \in Calls :
    LET t == tried[c]
        n == Len(tried[c])
    IN  /\ n <= Len(Strategies)
        /\ \A i \in 1..n : t[i][1] = Strategies[i]
        /\ \A i \in 1..(n - 1) : ~t[i][2]
        /\ transport[c] = "returned" => (n >= 1 /\ t[n][2])
        /\ transport[c] = "threw" =>
             (n = Len(Strategies) /\ \A i \in 1..n : ~t[i][2])
        /\ pc[c] = "dispatch" =>
             /\ transport[c] = "none"
             /\ \A i \in 1..n : ~t[i][2]
             /\ strategyIdx[c] = n + 1

\* makeRequest has returned the fallback's response after the primary failed
C4_Witness ==
  \E c \in Calls :
    /\ transport[c] = "returned"
    /\ Len(tried[c]) = 2
    /\ tried[c][1] = << strategy, FALSE >>
    /\ tried[c][2] = << fallbackStrategies[1], TRUE >>

\* C5: outside test contexts the primary strategy is custom when the health
\* probe succeeds and cors_proxy when it fails or errors.
C5_StrategySelection ==
  ~jest =>
    strategy = IF proxyHealth = "ok" THEN PROXY_STRATEGIES.CUSTOM_PROXY
               ELSE PROXY_STRATEGIES.CORS_PROXY

\* C6: a call whose dispatch ended with a thrown exception returns timeout if
\* and only if more than 10000 ms have elapsed since it started, and
\* network_error otherwise.
C6_TimeoutClassification ==
  \A c \in Calls :
    (Returned(c) /\ transport[c] = "threw") =>
      /\ Kind(c) = "timeout" <=> elapsed[c] > 10000
      /\ Kind(c) = "network_error" <=> elapsed[c] <= 10000

\* a dispatch that threw after more than 10 s has been reported as timeout
C6_Witness ==
  \E c \in Calls :
    /\ Returned(c) /\ transport[c] = "threw"
    /\ elapsed[c] > 10000
    /\ Kind(c) = "timeout"

\* C7: whenever no call is under way, totalTokens is the sum of the tokens
\* reported to the successful calls and errorRate is the number of failed
\* calls divided by the number of calls.
C7_UsageAccounting ==
  (\A c \in Calls : pc[c] \notin {"dispatch", "backoff"}) =>
    LET u == getUsageStats(usageStats)
    IN  /\ u.totalTokens = ledger.tokens
        /\ u.errorRate.num * ledger.calls = ledger.failed * u.errorRate.den

\* C8: a call that has returned a result has increased totalRequests by
\* exactly 1.
C8_RequestCounted ==
  \A c \in Calls :
    Returned(c) =>
      usageStats.totalRequests = statsAtCall[c].totalRequests + 1

\* C9: a call that has returned a Failure has increased errorCount by exactly
\* 1, and a call that has returned Success has left it unchanged.
C9_ErrorCounted ==
  \A c \in Calls :
    Returned(c) =>
      usageStats.errorCount =
        statsAtCall[c].errorCount + (IF result[c].success THEN 0 ELSE 1)

\* C10: every result a call returns carries processingTimeMs.
C10_ElapsedPresent ==
  \A c \in Calls :
    Returned(c) => "processingTimeMs" \in DOMAIN result[c]

\* C13: a call whose argument is not a non-empty string beginning with
\* 'data:image/' returns a Failure of kind invalid_input: its promise is not
\* rejected, and corsProxy.makeRequest is never invoked.
C13_InvalidInput ==
  \A c \in Calls :
    (pc[c] \in {"returned", "rejected"} /\ ~wellFormed[c]) =>
      /\ pc[c] = "returned"
      /\ Kind(c) = "invalid_input"
      /\ attempts[c] = 0 /\ executions[c] = 0

\* processSuccessResponse has returned a Success for the completion text
Sanitized == processed # NoResult /\ processed.success

\* position i of s lies inside a tag: between a "<" and the first ">" after it
InTag(s, i) ==
  \E j \in 1..i, k \in i..Len(s) :
    /\ s[j] = "<" /\ s[k] = ">"
    /\ \A m \in j..(k - 1) : s[m] # ">"

\* the characters of s from position i on that lie outside every tag
RECURSIVE OutsideTags(_, _)
OutsideTags(s, i) ==
  IF i > Len(s) THEN << >>
  ELSE (IF InTag(s, i) THEN << >> ELSE << s[i] >>) \o OutsideTags(s, i + 1)

\* no "<" of s is followed later by a ">"
NoTagLeft(s) ==
  \A i \in 1..Len(s), j \in 1..Len(s) : (s[i] = "<" /\ s[j] = ">") => j < i

\* C11: the roastText of a Success is not empty: a completion text of which
\* nothing is left after trimming and tag stripping is reported as a Failure.
C11_SuccessTextNonEmpty ==
  Sanitized => processed.roastText # << >>

\* C12, as stated: the roastText of a Success has no "<" followed later by a
\* ">", and it is the characters of the completion text outside the tags, in
\* their order.
C12_AsStated ==
  Sanitized =>
    /\ NoTagLeft(processed.roastText)
    /\ processed.roastText = OutsideTags(completion.text, 1)

\* C12, as amended: the roastText of a Success has no "<" followed later by a
\* ">", and it is the characters outside the tags, in their order, of the
\* completion text without its leading and trailing whitespace.
C12_TagsStripped ==
  Sanitized =>
    /\ NoTagLeft(processed.roastText)
    /\ processed.roastText = OutsideTags(Trim(completion.text), 1)

\* a text with a malformed tag between two letters has been sanitized
C12_Witness ==
  /\ Sanitized
  /\ completion.text = << "a", "<", "<", ">" >>
  /\ processed.roastText = << "a" >>

\* the kind of outcome a conversion's promise was fulfilled with
EncodingKind(k) ==
  IF promise[k].value.success THEN "success" ELSE promise[k].value.error.type

\* the outcome each of the three events stands for
EventKind(event) ==
  CASE event = "timer" -> "timeout"
    [] event = "load" -> "success"
    [] event = "error" -> "read_error"

\* the timeout a caller asked for: options.timeout, 10000 when it gave none
RequestedTimeout(opts) == IF opts.given THEN opts.timeout ELSE 10000

\* the same, where a timeout of 0 counts as not given
TimeoutInForce(opts) ==
  IF opts.given /\ opts.timeout # 0 THEN opts.timeout ELSE 10000

\* a conversion whose read was started
Reading(k) == reader[k] # "none"

\* the outcome of a started read is pending until the first of the three
\* events and is that event's outcome ever after
DecidedByFirstEvent(k) ==
  IF firstEvent[k] = "none"
  THEN promise[k] = Pending
  ELSE /\ promise[k].state = "fulfilled"
       /\ EncodingKind(k) = EventKind(firstEvent[k])

\* C14, as stated: the outcome of a conversion is that of the first of timer
\* expiry, load and error and no later event changes it; a read that takes
\* longer than options.timeout ms (10000 when none is given) ends as timeout.
C14_AsStated ==
  \A k \in Conversions :
    Reading(k) =>
      /\ DecidedByFirstEvent(k)
      /\ (firstEvent[k] # "none" /\ readTime[k] > RequestedTimeout(options[k]))
           => EncodingKind(k) = "timeout"

\* C14, as amended: the same, with a timeout of 0 counting as not given: a
\* read that takes longer than options.timeout ms (10000 when options.timeout
\* is absent or 0) ends as timeout.
C14_FirstEventWins ==
  \A k \in Conversions :
    Reading(k) =>
      /\ DecidedByFirstEvent(k)
      /\ (firstEvent[k] # "none" /\ readTime[k] > TimeoutInForce(options[k]))
           => EncodingKind(k) = "timeout"

\* a read was slower than the default timeout, the timer fired first and the
\* load event came late: the outcome is still timeout
C14_Witness ==
  \E k \in Conversions :
    /\ ~options[k].given /\ readTime[k] > defaultTimeout
    /\ firstEvent[k] = "timer" /\ reader[k] = "loaded"
    /\ promise[k] = Fulfilled(TimeoutOutcome)

\* C15: a load or error event of a read whose timeout has fired leaves
\* activeReaders and the performance metrics as they were.
C15_LateReadIgnored ==
  [][ \A k \in Conversions :
        (timeoutId[k] = "fired" /\ reader[k] = "reading"
           /\ reader'[k] # "reading") =>
          /\ activeReaders' = activeReaders
          /\ performanceMetrics' = performanceMetrics ]_vars

\* C16: while every conversion made is one whose read was started (so that it
\* ends by load, error or timeout), activeReaders is the number of
\* conversions with a pending promise; it is never negative, and 0 when none
\* is pending.
C16_ActiveReaders ==
  (\A k \in Conversions : promise[k].state # "none" => Reading(k)) =>
    /\ activeReaders =
         Cardinality({ k \in Conversions : promise[k].state = "pending" })
    /\ activeReaders >= 0

\* file.name is missing, file.size is no number or file.type is no string
LacksProperty(f) == f.kind = "object" /\ (~f.name \/ ~f.size \/ ~f.type)

\* the same, file.fileName standing in for a missing file.name
LacksPropertyOrAlias(f) ==
  f.kind = "object" /\ ((~f.name /\ ~f.fileName) \/ ~f.size \/ ~f.type)

\* conversion k is called and comes back at once with a failure of that kind:
\* no timer, no read, counters and metrics untouched
FailsFast(k, kind) ==
  /\ promise'[k].state = "fulfilled"
  /\ ~promise'[k].value.success
  /\ promise'[k].value.error.type = kind
  /\ timeoutId'[k] = "none" /\ reader'[k] = "none"
  /\ activeReaders' = activeReaders
  /\ performanceMetrics' = performanceMetrics

Validated == validation.state \in {"fulfilled", "rejected"}

\* the result is an error of that kind
Refused(kind) ==
  /\ validation.state = "fulfilled"
  /\ ~validation.value.isValid
  /\ validation.value.error.type = kind

\* the file is an object that reports a size
Sized == upload.kind = "object" /\ upload.size.isNumber

\* the file's MIME type is one of the four supported ones
Supported ==
  upload.type.isString
  /\ upload.type.value \in {"image/jpeg", "image/png", "image/gif", "image/webp"}

\* C18: a file with 0 < size <= 5 MiB and a supported MIME type is accepted.
C18_ValidAccepted ==
  (Validated /\ Sized /\ upload.size.value > 0
     /\ upload.size.value <= 5 * 1024 * 1024 /\ Supported) =>
    (validation.state = "fulfilled" /\ validation.value.isValid)

\* C19: a file whose size is greater than 5 MiB is refused with file_size,
\* whatever its MIME type.
C19_OversizeRefused ==
  (Validated /\ Sized /\ upload.size.value > 5 * 1024 * 1024) =>
    Refused("file_size")

\* C20: a file whose MIME type is unsupported, empty or missing is refused
\* with file_format, whatever its size.
C20_FormatRefused ==
  (Validated /\ upload.kind = "object" /\ ~Supported) =>
    Refused("file_format")

\* C21: a file of zero bytes is refused with file_invalid, whatever its MIME
\* type (and whether or not name is its own property).
C21_EmptyRefused ==
  (Validated /\ Sized /\ upload.size.value = 0) => Refused("file_invalid")

\* an empty PNG that passed the file-object check has been refused by
\* validateFileSize
C21_Witness ==
  /\ upload.kind = "object" /\ upload.ownName /\ upload.slice
  /\ upload.size = [isNumber |-> TRUE, value |-> 0]
  /\ upload.type = [isString |-> TRUE, value |-> "image/png"]
  /\ validation =
       Fulfilled(Invalid("file_invalid", "File is empty or corrupted"))

\* buildRequestBody has returned a request body
Built == requestBody # NoResult

\* the text part of the request built
TextPart == requestBody.messages[1].content[1].text

\* C22: the text part of a request built without customPrompt is a non-empty
\* prompt string: the table's entry for a persona key of the table, and the
\* default persona's prompt, one and the same string, for an unknown or
\* omitted key.
C22_PersonaPrompt ==
  (Built /\ ~requestOptions.customPrompt.given) =>
    /\ TextPart.type = "string" /\ TextPart.text # ""
    /\ (requestOptions.persona.given
          /\ requestOptions.persona.key \in DOMAIN personas) =>
         TextPart.text = personas[requestOptions.persona.key]
    /\ ~(requestOptions.persona.given
           /\ requestOptions.persona.key \in DOMAIN personas) =>
         TextPart = getPersonaPrompt(Omitted)

\* C23: the request has one user message whose content is a text part
\* followed by an image part; a supplied customPrompt is the text; a supplied
\* maxTokens or temperature, 0 included, is carried as it is, and 300 and 0.9
\* stand in for an omitted one.
C23_RequestBody ==
  Built =>
    /\ Len(requestBody.messages) = 1
    /\ Len(requestBody.messages[1].content) = 2
    /\ requestBody.messages[1].content[1].type = "text"
    /\ requestBody.messages[1].content[2].type = "image_url"
    /\ requestOptions.customPrompt.given =>
         TextPart = [type |-> "string", text |-> requestOptions.customPrompt.text]
    /\ requestBody.max_tokens =
         IF requestOptions.maxTokens.given THEN requestOptions.maxTokens.value
         ELSE 300
    /\ requestBody.temperature =
         IF requestOptions.temperature.given
         THEN requestOptions.temperature.value
         ELSE 90

\* the failure kind a status stands for, given the error code of the body
KindOfStatus(status, code) ==
  CASE status = 429 -> "rate_limit"
    [] status = 401 -> "api_error"
    [] status = 400 -> IF code = "content_policy_violation"
                       THEN "content_policy" ELSE "api_error"
    [] status = 503 -> "service_unavailable"
    [] OTHER -> "api_error"

\* C27: processErrorResponse returns, for every status that is not ok and
\* every body, a failure of the kind the status stands for (400 with the
\* code content_policy_violation is content_policy, 400 otherwise api_error),
\* with retryAfterSeconds 60 for 429, 30 for 503 and absent otherwise.
C27_ErrorMapping ==
  errorResult # NoResult =>
    /\ "error" \in DOMAIN errorResult
    /\ ~errorResult.success
    /\ errorResult.error.type =
         KindOfStatus(errorResponse.status,
                      IF errorResponse.errorData.kind = "object"
                      THEN errorResponse.errorData.code ELSE "none")
    /\ "retryAfterSeconds" \in DOMAIN errorResult.error
         <=> errorResponse.status \in {429, 503}
    /\ errorResponse.status = 429 => errorResult.error.retryAfterSeconds = 60
    /\ errorResponse.status = 503 => errorResult.error.retryAfterSeconds = 30

\* C24: a call starts a further makeRequest only when its previous one has
\* thrown and none is under way, and then no earlier than 1 s after the first
\* has failed and 2 s after the second has; after a makeRequest that returned
\* a response it starts none.
C24_SequentialAttempts ==
  [][ \A c \in Calls :
        /\ (attempts[c] >= 1 /\ attempts'[c] > attempts[c]) =>
             /\ pc[c] = "backoff" /\ transport[c] = "threw"
             /\ attempts'[c] = attempts[c] + 1
             /\ elapsed'[c] >= elapsed[c] + attempts[c] * 1000
        /\ transport[c] = "returned" => attempts'[c] <= attempts[c] ]_vars

\* a call's third makeRequest, started 3 s or more after the call began, has
\* returned a response
C24_Witness ==
  \E c \in Calls :
    /\ attempts[c] = 3 /\ transport[c] = "returned"
    /\ elapsed[c] >= 3000
    /\ Returned(c) /\ result[c].success

\* C30: no step lowers totalRequests, totalTokens or errorCount, and in every
\* state errorCount <= totalRequests, so that the errorRate getUsageStats
\* reports lies between 0 and 1.
C30_CountersMonotone ==
  [][ /\ usageStats'.totalRequests >= usageStats.totalRequests
      /\ usageStats'.totalTokens >= usageStats.totalTokens
      /\ usageStats'.errorCount >= usageStats.errorCount
      /\ usageStats.errorCount <= usageStats.totalRequests
      /\ usageStats'.errorCount <= usageStats'.totalRequests
      /\ LET rate == getUsageStats(usageStats').errorRate
         IN  0 <= rate.num /\ rate.num <= rate.den ]_vars

\* two calls have been counted, one of them a failure and one a success that
\* reported tokens
C30_Witness ==
  /\ usageStats.totalRequests = 2
  /\ usageStats.errorCount = 1
  /\ usageStats.totalTokens > 0
  /\ getUsageStats(usageStats).errorRate = [num |-> 1, den |-> 2]

\* the last makeRequest of a call executed every strategy of the list and
\* none of them answered ok
AllStrategiesFailed(c) ==
  /\ Len(tried[c]) = Len(Strategies)
  /\ \A i \in 1..Len(tried[c]) : ~tried[c][i][2]

C29_StrategiesReadOnly ==
  [][ /\ strategy' = strategy
      /\ fallbackStrategies' = fallbackStrategies
      /\ \A c \in Calls :
           /\ attempts'[c] > attempts[c] =>
                (strategyIdx'[c] = 1 /\ tried'[c] = << >>)
           /\ \A i \in 1..Len(tried'[c]) :
                tried'[c][i][1] = (<< strategy >> \o fallbackStrategies)[i] ]_vars

\* after a call that only the fallback answered, the next call has sent its
\* first request by the primary strategy
C29_Witness ==
  \E c \in Calls :
    /\ lastWinner = 2
    /\ \A d \in Calls : d < c => pc[d] = "done"
    /\ c > 1 /\ pc[c] = "dispatch"
    /\ tried[c] = << << strategy, FALSE >> >>

\* every call made has settled
AllSettled == \A c \in Calls : pc[c] \in {"returned", "rejected", "done"}

InFlight == { r \in DOMAIN app.roasts : ~app.roasts[r].settled }

\* C26: whatever the user does on the page (select files, move between the
\* steps, pick a persona, reset), at most one generateRoast call started by
\* the app is in flight at any time.
C26_SingleRequest == Cardinality(InFlight) <= 1

\* the kinds of failure convertToBase64 reports
EncodingKinds == {"invalid_input", "conversion_failed", "read_error", "timeout"}

\* C31: every failure outcome of convertToBase64, of each of the four kinds,
\* carries a kind, a message and a timestamp.
C31_FailureShape ==
  \A k \in Conversions :
    (promise[k].state = "fulfilled" /\ ~promise[k].value.success) =>
      /\ {"type", "message", "timestamp"} \subseteq DOMAIN promise[k].value.error
      /\ promise[k].value.error.type \in EncodingKinds

\* C32: generateRoast rejects with kind image_too_large, without calling the
\* transport, every encoded image whose base64 payload (what follows the 23
\* characters of 'data:image/jpeg;base64,') has 10 * 1024 * 1024 characters or
\* more.
C32_OversizeImage ==
  [][ \A c \in Calls : \A img \in Images :
        ( /\ generateRoast(c, img)
          /\ img.type = "string" /\ img.startsWithDataImage
          /\ img.length - 23 >= 10 * 1024 * 1024 ) =>
          /\ pc'[c] = "returned"
          /\ ~result'[c].success
          /\ result'[c].error.type = "image_too_large"
          /\ attempts'[c] = 0 /\ executions'[c] = 0 ]_vars

\* the kinds of failure only processErrorResponse reports
ErrorResponseKinds ==
  {"rate_limit", "api_error", "content_policy", "service_unavailable"}

UnderWay(c) == pc[c] \in {"dispatch", "backoff", "rejected"}

\* C34: while every strategy execution and every backoff delay settles, every
\* generateRoast call eventually returns a result, and no call performs more
\* than 3 * (1 + number of fallback strategies) strategy executions.
C34_Terminates ==
  \A c \in Calls :
    /\ [](executions[c] <= 3 * Len(Strategies))
    /\ UnderWay(c) ~> Returned(c)

\* the same holds of the calls whose promise was not rejected at once
ValidatedCallsTerminate ==
  \A c \in Calls :
    /\ [](executions[c] <= 3 * Len(Strategies))
    /\ (pc[c] \in {"dispatch", "backoff"}) ~> Returned(c)

\* the roast step is on the page and its RoastDisplay shows the outcome of a
\* generateRoast call
OutcomeShown ==
  app.currentStep = 3 /\ app.roastDisplay.state \in {"roast", "error"}

\* C35: a roast or error shown by the app belongs to the image and persona
\* currently selected: the outcome of a request started before a reset, before
\* a new file was selected or before the persona was changed is not on display.
C35_ShownIsCurrent ==
  OutcomeShown =>
    /\ app.roasts[app.roastDisplay.roast].image = app.currentImageData
    /\ app.roasts[app.roastDisplay.roast].persona = app.selectedPersona

\* C36: whenever isProcessing is true it eventually is false again, whatever
\* the outcome of the request, provided generateRoast settles.
C36_FlagCleared == app.isProcessing ~> ~app.isProcessing

\* a request has settled with an error on display and the flag is clear
C36_Witness ==
  /\ ~app.isProcessing
  /\ app.currentStep = 3
  /\ app.roastDisplay.state = "error"
  /\ app.roasts[app.roastDisplay.roast].settled

\* the step shown is one of the three, and the persona and roast steps hold
\* an encoded image
StepInvariant(a) ==
  /\ a.currentStep \in {1, 2, 3}
  /\ a.currentStep \in {2, 3} => a.currentImageData # 0

\* C38: after every completed action (file selection, goToStep with any step
\* number, persona selection, resetApp) currentStep is 1, 2 or 3 and steps 2
\* and 3 hold an encoded image; no roast request was started without one.
C38_StepsHoldImage ==
  /\ StepInvariant(app)
  /\ \A stepNumber \in 0..4 : StepInvariant(goToStep(app, stepNumber))
  /\ \A r \in DOMAIN app.roasts : app.roasts[r].image # 0

\* after a reset that followed a roast the app is back at step 1 without an
\* image, and goToStep(3) is refused
C38_Witness ==
  /\ app.roasts # << >>
  /\ app.currentStep = 1 /\ app.currentImageData = 0
  /\ goToStep(app, 3) = app

\* the Validation Gate accepts a file: validateFile's checks of the object,
\* its size and its format pass, which for a File means 0 < size <= 5 MiB and
\* a type among the supported formats
GateAccepts(f) ==
  /\ Prechecked(f) = NoResult
  /\ 0 < f.size.value /\ f.size.value <= UPLOAD_CONSTRAINTS.MAX_FILE_SIZE_BYTES
  /\ ArrayIncludes(UPLOAD_CONSTRAINTS.SUPPORTED_FORMATS, f.type.value)

\* C37: every file that PhotoUpload.handleFileSelect forwards to onFileSelect
\* (the file it keeps as currentFile) is a file the Validation Gate accepts.
C37_PreCheckAgrees ==
  photoUpload.currentFile # NoUpload => GateAccepts(photoUpload.currentFile)

\* C39: the service worker never intercepts a request that is not a GET: it
\* answers none from a cache and stores none, so no cache ever holds a
\* completion request (a POST) or its response.
C39_NonGetUntouched ==
  /\ \A name \in DOMAIN swCaches : \A entry \in swCaches[name] :
       entry.method = "GET"
  /\ (lastFetch # NoFetch /\ lastFetch.request.method # "GET") =>
       lastFetch.handled = "browser"

\* a completion request was left to the browser by a worker whose caches
\* hold responses to GET requests
C39_Witness ==
  /\ lastFetch # NoFetch
  /\ lastFetch.request.method = "POST" /\ isApiCall(lastFetch.request)
  /\ lastFetch.handled = "browser"
  /\ swCaches["dynamic"] # {} /\ swCaches["static"] # {}

====
